---- MODULE Spec2Model ----
(***************************************************************************)
(* Model of the MyEldom cloud client (src/MyEldom.py): the login state     *)
(* machine, logout, the HTTP GET/POST retry helpers, device discovery, the *)
(* per-heater refresh, the heater commands and the websocket interface;    *)
(* and of the host's setup and unload of an integration entry              *)
(* (src/__init__.py).                                                      *)
(*                                                                         *)
(* Every coroutine is cut at its await points: one action per request      *)
(* sent and per answer received.  The code between two awaits runs without *)
(* interruption on the event loop and is one atomic step.                  *)
(*                                                                         *)
(* The client is exercised by several specifications over the same         *)
(* variables: SpecLogin (connect), SpecSession (connect and disconnect),   *)
(* SpecCmd (set_temperature / set_state on a discovered registry),         *)
(* SpecOne (fetch_heater_data on one heater), SpecRefresh                  *)
(* (fetch_all_heaters: discovery and the concurrent refresh), SpecOverlap  *)
(* (two overlapping fetch_all_heaters calls), SpecSetup (the entry's       *)
(* setup, refreshes and unload), SpecTeardown (operations around a         *)
(* disconnect), SpecSetState (set_state between refreshes), SpecRequest    *)
(* (one call of a request helper, attempt by attempt), SpecChannel (the    *)
(* websocket interface), SpecInFlight (set_temperature while a refresh is  *)
(* in flight), SpecTerm (every call, with each attempt's outcome fair),    *)
(* SpecFrame (operations around a disconnect and a second connect),        *)
(* SpecFlow (the config flow's client, src/config_flow.py) and             *)
(* SpecHeartbeat (the websocket interface with the heartbeat scheduled).   *)
(*                                                                         *)
(* Debug logging is off (ELDOM_DEBUG = False in src/const.py): the         *)
(* `if self.debug:` blocks are not part of the model.                      *)
(***************************************************************************)
EXTENDS Integers, Sequences, FiniteSets, TLC

(***************************************************************************)
(* Bounds of the model.                                                    *)
(***************************************************************************)
\* Largest retry budget passed to connect().
MaxRetry == 3
\* Number of connect() calls made on one client.
MaxConnects == 2
\* Measured values (temperatures, energy counters, times) range over 1..MaxVal.
MaxVal == 2

(***************************************************************************)
(* Program constants.                                                      *)
(***************************************************************************)
\* resp.status == 302 is the login success code.
HTTP_FOUND == 302
\* Default of connect(retry=2).
DEFAULT_LOGIN_RETRY == 2
\* Default of _get_request(retry=3) and of _post_request(retry=3).
GET_RETRY == 3
POST_RETRY == 3
\* Device type code of a heater in the device list.
ELDOM_DEVICE_TYPE_HEATER == 4
\* lastDataRefreshDate[:19]
TS_PREFIX_LEN == 19

VARIABLES
    \* ---- session manager ------------------------------------------------
    websession,          \* "unset" (before connect), "own", "host", "none"
    last_login_attempt,  \* time of the last _do_login entry
    clock,               \* datetime.utcnow(): strictly increasing readings
    loginPc,             \* "idle" | "posting" | "done"
    loginRetry,          \* the `retry` argument of the running _do_login frame
    loginBudget,         \* the `retry` argument connect() was called with
    loginAttempts,       \* login POSTs sent by the current connect()
    loginLog,            \* outcomes of those POSTs, in order
    connectResult,       \* value returned by connect()
    nConnects,           \* connect() calls made so far
    closed,              \* the transport sessions that have been closed
    dcPc,                \* disconnect(): "idle" | "logout" | "done" | "raised"
    dcGets,              \* logout requests sent by the current disconnect()
    dcOutcome,           \* what the logout request of that call ended in
    \* ---- device registry ------------------------------------------------
    heaters,             \* self.heaters: realDeviceId -> Heater record
    \* ---- a heater command (set_temperature / set_state) -------------------
    cmdPc,               \* "idle" | "post" | "get" | "done" | "raised"
    cmdOp,               \* "set_temperature" | "set_state"
    cmdKey,              \* registry key of the heater passed to the command
    cmdArg,              \* the temperature / state passed
    cmdRetry,            \* `retry` of the running request frame
    cmdPosts,            \* POST requests sent by the current command
    cmdGets,             \* GET requests sent by the current command
    cmdResp,             \* what the request helper returned (None or Some)
    cmdResult,           \* value returned by the command
    cmdBefore,           \* the heater record when the command was called
    \* ---- fetch_heater_data, one coroutine per heater -----------------------
    fetch,               \* realDeviceId -> [pc, retry, resp, result]
    \* ---- fetch_all_heaters ---------------------------------------------------
    raPc,                \* "idle" | "discover" | "gather" | "returned" | "raised"
    raRetry,             \* `retry` of the running device-list request frame
    raStartEmpty,        \* was the registry empty when the call started
    raDiscGets,          \* device-list requests sent by the current call
    raReturn,            \* the mapping the call returned
    raList,              \* `device_list`: what get_device_list() returned
    \* ---- a second fetch_all_heaters call, while it is not the one stepping ----
    other,               \* its [pc, retry, startEmpty, discGets, return, list, fetch]
    \* ---- the integration entry of the host (src/__init__.py) ----------------
    entryPc,             \* "none" | "setup" | "first_refresh" | "loaded"
                         \*   | "not_ready" | "unloaded"
    coordinator,         \* has the update coordinator been created
    \* ---- one call of a request helper (_get_request / _post_request) --------
    reqPc,               \* "idle" | "wait" | "done"
    reqMethod,           \* method of the attempt in flight: "GET" | "POST"
    reqRetry,            \* `retry` of the running helper frame
    reqLog,              \* the attempts made: [method, outcome], in order
    reqResult,           \* what the helper returned (None or Some)
    reqCommand,          \* the `command` argument (the request path)
    \* ---- the push channel (websocket interface) ----------------------------
    websocket,           \* self.websocket: "unset" | "open" | "none", and
                         \*   "closing": set, ws_disconnect awaits close()
    user_info,           \* self.user_info: None or Some(set of keys)
    devices,             \* self.devices: None or Some(dev_id -> Status)
    wsPc,                \* run_websocket(): "idle" | "connecting" | "announce"
                         \*   | "subscribe" | "returned" | "raised"
    wsIdx,               \* devices already iterated by ws_connect's loop
    wsSent,              \* send_json calls on the socket: [frame, ok], in order
    hbPc,                \* ws_heartbeat task: "none" | "loop" | "send" | "failed"
                         \*   | "sleep" | "ended" | "raised"
    hbIdx,               \* devices already iterated by the current round
    hbRounds,            \* rounds of the heartbeat loop started so far
    lsPc,                \* ws_listener task: "none" | "recv" | "closed" | "failed"
    lsMsg,               \* the frame the listener received last
    lsCount              \* frames the listener has received

dcVars == <<dcPc, dcGets, dcOutcome>>
loginVars == <<websession, last_login_attempt, clock, loginPc, loginRetry,
               loginBudget, loginAttempts, loginLog, connectResult, nConnects,
               closed, dcVars>>
cmdVars == <<cmdPc, cmdOp, cmdKey, cmdArg, cmdRetry, cmdPosts, cmdGets,
             cmdResp, cmdResult, cmdBefore>>

raVars == <<raPc, raRetry, raStartEmpty, raDiscGets, raReturn, raList>>

hostVars == <<entryPc, coordinator>>

reqVars == <<reqPc, reqMethod, reqRetry, reqLog, reqResult, reqCommand>>

wsVars == <<websocket, user_info, devices, wsPc, wsIdx, wsSent, hbPc, hbIdx,
            hbRounds, lsPc, lsMsg, lsCount>>

vars == <<loginVars, heaters, cmdVars, fetch, raVars, other, hostVars,
          reqVars, wsVars>>

(***************************************************************************)
(* Python and JSON values.  A value is a record [t, v]: its type tag and   *)
(* an integer that identifies it among the values of that type.            *)
(***************************************************************************)
JNone == [t |-> "none", v |-> 0]
JBool(b) == [t |-> "bool", v |-> IF b THEN 1 ELSE 0]
JNum(n) == [t |-> "num", v |-> n]
\* A string holding the decimal numeral of n.
JNumStr(n) == [t |-> "numstr", v |-> n]
\* The empty string.
JEmpty == [t |-> "empty", v |-> 0]
\* Any other string; n tells such strings apart.
JText(n) == [t |-> "text", v |-> n]
\* A timestamp string "YYYY-MM-DDTHH:MM:SS" naming the second `sec`, followed
\* by `extra` more characters (fraction and zone, e.g. ".3048796Z").
JTs(sec, extra) == [t |-> "ts", len |-> TS_PREFIX_LEN + extra, v |-> sec]
\* A datetime object.
Datetime(sec) == [t |-> "datetime", v |-> sec]

\* Optional results of the request helpers: None, or the decoded data.
None == <<>>
Some(x) == <<x>>

\* bool(x) as `if x:` computes it.
Truthy(x) ==
    ~ \/ x.t \in {"none", "empty"}
      \/ x.t \in {"num", "bool"} /\ x.v = 0

\* float(x): defined on numbers, booleans and numeric strings; TypeError on
\* None, ValueError on any other string.
FloatOk(x) == x.t \in {"num", "bool", "numstr"}
PyFloat(x) == JNum(x.v)

\* str(x)
PyStr(x) ==
    CASE x.t = "num" -> JNumStr(x.v)
      [] x.t = "none" -> JText(0)
      [] OTHER -> x

\* x[:19]: defined on strings only (TypeError otherwise).
IsString(x) == x.t \in {"numstr", "empty", "text", "ts"}
Prefix19(x) ==
    IF x.t = "ts" /\ x.len > TS_PREFIX_LEN
    THEN [x EXCEPT !.len = TS_PREFIX_LEN]
    ELSE x

\* datetime.strptime(s, "%Y-%m-%dT%H:%M:%S"): ValueError unless s is exactly
\* a timestamp of that format (unconverted data remaining is an error).
StrptimeOk(s) == s.t = "ts" /\ s.len = TS_PREFIX_LEN
Strptime(s) == Datetime(s.v)

\* datetime.strptime(x[:19], fmt) on a JSON value x: does it return?
ParseDateOk(x) == IsString(x) /\ StrptimeOk(Prefix19(x))
ParseDate(x) == Strptime(Prefix19(x))

(***************************************************************************)
(* Transport layer: _get_request / _post_request                           *)
(***************************************************************************)
\* What one request attempt can end in.
Timeout == [kind |-> "timeout"]
ClientError == [kind |-> "client_error"]
EmptyBody == [kind |-> "empty"]
TextBody == [kind |-> "text"]
JsonBody(data) == [kind |-> "json", data |-> data]

\* `except asyncio.TimeoutError: if retry < 1: ... return None`.
RetryExhausted_OneShort(retry) == retry < 2
RetryExhausted_OneMore(retry) == retry < 0
RetryExhausted(retry) == retry < 1

\* Which exceptions of a data request reach the retry branch: only
\* asyncio.TimeoutError; `except aiohttp.ClientError` returns None at once.
RequestRetried_AsLogin(exc) == exc.kind \in {"timeout", "client_error"}
RequestRetried(exc) == exc.kind = "timeout"

\* The helper a timed-out attempt recurses into: _get_request, in
\* _get_request (line 189) and in _post_request (line 235) alike.
RetryMethod_Same(m) == m
RetryMethod(m) == "GET"

\* json.loads(result): the JSON literal null decodes to Python's None, any
\* other document to a value that is not None.
JsonLoads_Wrapped(data) == Some(data)
JsonLoads(data) == IF data = JNone THEN None ELSE Some(data)

\* The tail of both helpers: `result = await resp.text()`; an empty result
\* and a JSONDecodeError give None, otherwise json.loads(result).
DecodeBody(body) ==
    IF body.kind = "empty" THEN None
    ELSE IF body.kind = "json" THEN JsonLoads(body.data)
    ELSE None

(***************************************************************************)
(* Data model: Heater records and the registry                             *)
(***************************************************************************)
\* Heater(): every dataclass field defaults to None.  swVersion is the
\* attribute fetch_all_heaters adds (the dataclass field is sw_version).
\* obj is the identity of the object (what `is` compares): 0 until the
\* object is allocated by a call of Heater().
NewHeater ==
    [obj |-> 0, hw_version |-> JNone, sw_version |-> JNone, id |-> JNone,
     last_updated |-> JNone, name |-> JNone, real_device_id |-> JNone,
     available |-> JNone, raw_data |-> None, state |-> JNone, power |-> JNone,
     current_temp |-> JNone, set_temp |-> JNone, pcb_temp |-> JNone,
     open_window |-> JNone, energy_day |-> JNone, energy_night |-> JNone,
     energy_total |-> JNone, swVersion |-> JNone]

EmptyRegistry == [k \in {} |-> NewHeater]

\* self.heaters[_id] = heater
RegistryPut(reg, k, h) ==
    [x \in DOMAIN reg \cup {k} |-> IF x = k THEN h ELSE reg[x]]

\* An entry of the device list, as device.get(...) reads it.
DeviceEntry(type, rid, ts) ==
    [deviceType |-> JNum(type), realDeviceId |-> JText(rid), id |-> JNum(rid),
     name |-> JText(10 + rid), hwVersion |-> JNum(14), swVersion |-> JNum(25),
     lastDataRefreshDate |-> ts]

\* `device.get("deviceType") == ELDOM_DEVICE_TYPE_HEATER`
IsHeaterEntry(device) == device.deviceType = JNum(ELDOM_DEVICE_TYPE_HEATER)

\* Heater(): an object distinct from every object the registry holds.
Allocate(reg) ==
    LET used == {reg[k].obj : k \in DOMAIN reg}
        free == (1..(Cardinality(used) + 1)) \ used
    IN [NewHeater EXCEPT !.obj = CHOOSE n \in free : \A m \in free : n <= m]

\* The body of the discovery loop for one heater entry, up to the
\* timestamp: heater = self.heaters.get(_id, Heater()) with hw_version and
\* id assigned.
EntryHeater_AlwaysNew(reg, device) ==
    [Allocate(reg) EXCEPT !.hw_version = PyStr(device.hwVersion), !.id = device.id]
EntryHeater(reg, device) ==
    LET k == device.realDeviceId
        h == IF k \in DOMAIN reg THEN reg[k] ELSE Allocate(reg)
    IN [h EXCEPT !.hw_version = PyStr(device.hwVersion), !.id = device.id]

\* Does the loop body raise for this entry (strptime or the slice)?
EntryRaises(device) ==
    /\ IsHeaterEntry(device)
    /\ Truthy(device.lastDataRefreshDate)
    /\ ~ParseDateOk(device.lastDataRefreshDate)

\* The registry after the loop body ran to its end for one entry.
EntryApplied(reg, device) ==
    IF ~IsHeaterEntry(device) THEN reg
    ELSE LET h0 == EntryHeater(reg, device)
             h1 == IF Truthy(device.lastDataRefreshDate)
                   THEN [h0 EXCEPT !.last_updated = ParseDate(device.lastDataRefreshDate),
                                   !.available = JBool(TRUE)]
                   ELSE [h0 EXCEPT !.available = JBool(FALSE)]
             h2 == [h1 EXCEPT !.name = device.name,
                              !.real_device_id = device.realDeviceId,
                              !.swVersion = device.swVersion]
         IN RegistryPut(reg, device.realDeviceId, h2)

\* The registry when the loop body raised for this entry: a heater object
\* that was already in the registry keeps the two fields assigned before
\* the exception; a new Heater() is dropped.
EntryAborted(reg, device) ==
    IF device.realDeviceId \in DOMAIN reg
    THEN [reg EXCEPT ![device.realDeviceId] = EntryHeater(reg, device)]
    ELSE reg

\* `for device in device_list:` from entry i on.  Returns the registry and
\* whether the loop raised.
RECURSIVE DiscoverFrom(_, _, _)
DiscoverFrom(reg, list, i) ==
    IF i > Len(list) THEN [reg |-> reg, raised |-> FALSE]
    ELSE IF EntryRaises(list[i])
         THEN [reg |-> EntryAborted(reg, list[i]), raised |-> TRUE]
         ELSE DiscoverFrom(EntryApplied(reg, list[i]), list, i + 1)

(***************************************************************************)
(* Session manager: connect / _do_login                                    *)
(***************************************************************************)
\* What one login POST can end in: an exception of the transport, or a
\* response with a status code.
LoginFailures == {"timeout", "client_error"}
LoginStatuses == {200, 301, HTTP_FOUND, 401}

\* `except (asyncio.TimeoutError, aiohttp.ClientError)`: the exceptions
\* _do_login catches.
LoginCaught(exc) == exc \in {"timeout", "client_error"}

\* `if retry < 1: return False` -- the handler gives up.
LoginGivesUp_OffByOne(retry) == retry < 0
LoginGivesUp(retry) == retry < 1

\* `if resp.status == 302: return True`.
LoginAccepted_AnyRedirect(status) == status \in {301, 302}
LoginAccepted(status) == status = HTTP_FOUND

\* Entry of _do_login(retry) up to the await of the POST: the attempt time
\* is stored, then the request is sent.
DoLoginEnter_StampFirstOnly(retry) ==
    /\ last_login_attempt' = IF loginPc = "posting" THEN last_login_attempt ELSE clock
    /\ clock' = clock + 1
    /\ loginRetry' = retry
    /\ loginPc' = "posting"
DoLoginEnter(retry) ==
    /\ last_login_attempt' = clock
    /\ clock' = clock + 1
    /\ loginRetry' = retry
    /\ loginPc' = "posting"

\* self.websession refers to a session that is open: a request can be sent
\* on it.  (On None or a missing attribute the call raises AttributeError,
\* on a closed session RuntimeError.)
SessionUsable ==
    /\ websession \in {"own", "host"}
    /\ websession \notin closed

\* connect(websession, retry): stores or creates the session, then enters
\* _do_login(retry).  A session connect() creates is a new, open one; the
\* session of the host is the same object at every call.  connect() and
\* disconnect() are called one after the other, never while the other runs.
Connect(supplied, retry) ==
    /\ loginPc \in {"idle", "done", "raised"}
    /\ dcPc # "logout"
    /\ nConnects < MaxConnects
    /\ nConnects' = nConnects + 1
    /\ websession' = IF supplied THEN "host" ELSE "own"
    /\ closed' = IF supplied THEN closed ELSE closed \ {"own"}
    /\ UNCHANGED dcVars
    /\ loginBudget' = retry
    /\ loginLog' = <<>>
    /\ connectResult' = FALSE
    /\ loginAttempts' = 1
    /\ DoLoginEnter(retry)
    /\ UNCHANGED <<heaters, cmdVars, fetch, raVars, other, hostVars, reqVars,
                   wsVars>>

\* The POST raised: the except clause of _do_login.
LoginRaised(exc) ==
    /\ loginPc = "posting"
    /\ SessionUsable
    /\ LoginCaught(exc)
    /\ loginLog' = Append(loginLog, [exc |-> exc, status |-> 0])
    /\ IF LoginGivesUp(loginRetry)
       THEN /\ loginPc' = "done"
            /\ connectResult' = FALSE
            /\ UNCHANGED <<last_login_attempt, clock, loginRetry, loginAttempts>>
       ELSE /\ DoLoginEnter(loginRetry - 1)
            /\ loginAttempts' = loginAttempts + 1
            /\ UNCHANGED connectResult
    /\ UNCHANGED <<websession, loginBudget, nConnects, closed, dcVars>>
    /\ UNCHANGED <<heaters, cmdVars, fetch, raVars, other, hostVars, reqVars,
                   wsVars>>

\* The POST was answered with a status code.
LoginAnswered(status) ==
    /\ loginPc = "posting"
    /\ SessionUsable
    /\ loginLog' = Append(loginLog, [exc |-> "none", status |-> status])
    /\ loginPc' = "done"
    /\ connectResult' = LoginAccepted(status)
    /\ UNCHANGED <<websession, last_login_attempt, clock, loginRetry,
                   loginBudget, loginAttempts, nConnects, closed, dcVars>>
    /\ UNCHANGED <<heaters, cmdVars, fetch, raVars, other, hostVars, reqVars,
                   wsVars>>

\* The state of one fetch_heater_data coroutine that is not running.
IdleTask ==
    [pc |-> "idle", retry |-> 0, resp |-> None, result |-> FALSE]
NoTasks == [k \in {} |-> IdleTask]
IdleTasks(reg) == [k \in DOMAIN reg |-> IdleTask]

\* A fetch_all_heaters call that is not the one stepping, as a record.
CallRecord(pc, retry, startEmpty, discGets, return, list, tasks) ==
    [pc |-> pc, retry |-> retry, startEmpty |-> startEmpty,
     discGets |-> discGets, return |-> return, list |-> list, fetch |-> tasks]
OtherIdle == CallRecord("idle", 0, FALSE, 0, EmptyRegistry, None, NoTasks)

\* No fetch_all_heaters call was made yet.
RefreshAllIdle ==
    /\ raPc = "idle"
    /\ raRetry = 0
    /\ raStartEmpty = FALSE
    /\ raDiscGets = 0
    /\ raReturn = EmptyRegistry
    /\ raList = None
    /\ other = OtherIdle

\* The outcome of a request: the exception it raised or its status code.
Outcome(exc, status) == [exc |-> exc, status |-> status]
NoOutcome == Outcome("none", 0)

\* No disconnect() call was made yet.
DisconnectIdle ==
    /\ dcPc = "idle"
    /\ dcGets = 0
    /\ dcOutcome = NoOutcome

\* The client after __init__ (which does not assign self.websession).
LoginInit ==
    /\ websession = "unset"
    /\ closed = {}
    /\ DisconnectIdle
    /\ last_login_attempt = 0
    /\ clock = 1
    /\ loginPc = "idle"
    /\ loginRetry = 0
    /\ loginBudget = 0
    /\ loginAttempts = 0
    /\ loginLog = <<>>
    /\ connectResult = FALSE
    /\ nConnects = 0

LoginNext ==
    \/ \E supplied \in BOOLEAN, r \in 0..MaxRetry : Connect(supplied, r)
    \/ \E exc \in LoginFailures : LoginRaised(exc)
    \/ \E st \in LoginStatuses : LoginAnswered(st)

\* The client after connect(websession) was answered with a redirect at its
\* first attempt (the state async_setup_entry continues from).
LoggedIn ==
    /\ websession = "host"
    /\ closed = {}
    /\ DisconnectIdle
    /\ last_login_attempt = 1
    /\ clock = 2
    /\ loginPc = "done"
    /\ loginRetry = DEFAULT_LOGIN_RETRY
    /\ loginBudget = DEFAULT_LOGIN_RETRY
    /\ loginAttempts = 1
    /\ loginLog = <<[exc |-> "none", status |-> HTTP_FOUND]>>
    /\ connectResult = TRUE
    /\ nConnects = 1

\* No command is running.
CmdIdle ==
    /\ cmdPc = "idle"
    /\ cmdOp = "none"
    /\ cmdKey = JNone
    /\ cmdArg = JNone
    /\ cmdRetry = 0
    /\ cmdPosts = 0
    /\ cmdGets = 0
    /\ cmdResp = None
    /\ cmdResult = FALSE
    /\ cmdBefore = NewHeater

\* The position of the host in the life of the integration entry.
\* HostNone: the client is used without an entry (config flow, test main).
HostAt(pc, created) == entryPc = pc /\ coordinator = created
HostNone == HostAt("none", FALSE)
HostLoaded == HostAt("loaded", TRUE)

\* No request helper call is being followed.
RequestIdle ==
    /\ reqPc = "idle"
    /\ reqMethod = "none"
    /\ reqRetry = 0
    /\ reqLog = <<>>
    /\ reqResult = None
    /\ reqCommand = "none"

\* The push channel of a new client: __init__ sets user_info and devices to
\* None and does not create the websocket attribute; no task exists.
ChannelIdle ==
    /\ websocket = "unset"
    /\ wsPc = "idle"
    /\ wsIdx = 0
    /\ wsSent = <<>>
    /\ hbPc = "none"
    /\ hbIdx = 0
    /\ hbRounds = 0
    /\ lsPc = "none"
    /\ lsMsg = None
    /\ lsCount = 0

ChannelNew ==
    /\ ChannelIdle
    /\ user_info = None
    /\ devices = None

\* A new client: no session, an empty registry, nothing running.
NewClient ==
    /\ LoginInit
    /\ heaters = EmptyRegistry
    /\ CmdIdle
    /\ fetch = NoTasks
    /\ RefreshAllIdle
    /\ HostNone
    /\ RequestIdle
    /\ ChannelNew

SpecLogin == NewClient /\ [][LoginNext]_vars

(***************************************************************************)
(* Claims about connect()                                                  *)
(***************************************************************************)
\* The attempts of the current connect() that ended in a transport failure.
LogFailed(i) == loginLog[i].exc # "none"
LogAllFailed(n) == \A i \in 1..n : LogFailed(i)

\* C1: with retry budget r, a login transport that fails k times and then
\* answers with the redirect status makes connect() return success after
\* exactly k+1 attempts (k <= r); a transport that keeps failing makes it
\* return failure after exactly r+1 attempts; every attempt sent has its
\* outcome in the log when connect() returns, so none follows the decision.
C1_LoginRetryBudget ==
    /\ loginPc = "posting" =>
          /\ loginAttempts = Len(loginLog) + 1
          /\ loginAttempts <= loginBudget + 1
          /\ LogAllFailed(Len(loginLog))
    /\ loginPc = "done" =>
          LET n == Len(loginLog) IN
          /\ loginAttempts = n
          /\ LogAllFailed(n - 1)
          /\ LogAllFailed(n) => (~connectResult /\ n = loginBudget + 1)
          /\ (~LogFailed(n) /\ loginLog[n].status = HTTP_FOUND) =>
                (connectResult /\ n - 1 <= loginBudget)

\* retry=2, two timeouts, then a redirect: success after 3 attempts.
C1_Witness ==
    /\ loginPc = "done"
    /\ loginBudget = DEFAULT_LOGIN_RETRY
    /\ loginAttempts = 3
    /\ loginLog[1].exc = "timeout"
    /\ loginLog[2].exc = "timeout"
    /\ loginLog[3].status = HTTP_FOUND
    /\ connectResult

\* C2: connect() returns success iff a login attempt was answered with
\* status 302; an answer with any other status ends connect() with failure
\* at once, whatever retry budget remains (an answered attempt is always
\* the last one).
C2_RedirectOnly ==
    /\ \A i \in 1..Len(loginLog) : ~LogFailed(i) => (i = Len(loginLog) /\ loginPc = "done")
    /\ loginPc = "done" =>
          (connectResult <=> \E i \in 1..Len(loginLog) :
                                ~LogFailed(i) /\ loginLog[i].status = HTTP_FOUND)

\* A rejected login with budget left: one attempt, failure, no retry.
C2_Witness ==
    /\ loginPc = "done"
    /\ loginRetry = DEFAULT_LOGIN_RETRY
    /\ loginAttempts = 1
    /\ loginLog[1].status = 401
    /\ ~connectResult

\* A step in which a login attempt is started: the first one of a connect()
\* or a retry.
AttemptStarted == <<nConnects, loginAttempts>>' # <<nConnects, loginAttempts>>

\* C14: every login attempt, first or retry, stores the time it is started
\* at in last_login_attempt in the step that sends the request, and no
\* outcome of an attempt (timeout, connection error, rejection, success)
\* changes it; so when connect() returns, last_login_attempt is the start
\* time of the most recent attempt.
C14_LastLoginAttempt ==
    [][/\ AttemptStarted => (last_login_attempt' = clock /\ loginPc' = "posting")
       /\ ~AttemptStarted => last_login_attempt' = last_login_attempt]_vars

\* connect() that timed out three times (attempts started at 1, 2, 3) and
\* returned failure: the time of the third attempt is recorded.
C14_Witness ==
    /\ loginPc = "done"
    /\ ~connectResult
    /\ nConnects = 1
    /\ loginAttempts = 3
    /\ \A i \in 1..3 : loginLog[i].exc = "timeout"
    /\ last_login_attempt = 3
    /\ clock = 4

(***************************************************************************)
(* Session manager: disconnect / _do_logout                                *)
(***************************************************************************)
\* What the logout GET can end in.  It runs under the session's own
\* timeout; _do_logout has no except clause.
LogoutFailures == {"timeout", "client_error"}
LogoutStatuses == {200, HTTP_FOUND, 401}

\* `await self.websession.close(); self.websession = None`
ReleaseSession ==
    /\ closed' = closed \cup {websession}
    /\ websession' = "none"

\* disconnect() -> _do_logout() up to the await of the logout GET.  Reading
\* self.websession on a client connect() was never called on raises
\* AttributeError; a GET on a closed session raises RuntimeError.
Disconnect ==
    /\ dcPc # "logout"
    /\ loginPc # "posting"
    /\ dcGets' = IF SessionUsable THEN 1 ELSE 0
    /\ dcPc' = IF SessionUsable THEN "logout"
               ELSE IF websession = "none" THEN "done"
               ELSE "raised"
    /\ dcOutcome' = IF SessionUsable \/ websession = "none" THEN NoOutcome
                    ELSE IF websession = "unset" THEN Outcome("attribute_error", 0)
                    ELSE Outcome("runtime_error", 0)
    /\ UNCHANGED <<websession, last_login_attempt, clock, loginPc, loginRetry,
                   loginBudget, loginAttempts, loginLog, connectResult,
                   nConnects, closed>>
    /\ UNCHANGED <<heaters, cmdVars, fetch, raVars, other, hostVars, reqVars,
                   wsVars>>

\* The logout GET was answered: the session is closed and the handle
\* cleared, whatever the status.
LogoutAnswered(status) ==
    /\ dcPc = "logout"
    /\ dcPc' = "done"
    /\ dcOutcome' = Outcome("none", status)
    /\ ReleaseSession
    /\ UNCHANGED <<dcGets, last_login_attempt, clock, loginPc, loginRetry,
                   loginBudget, loginAttempts, loginLog, connectResult, nConnects>>
    /\ UNCHANGED <<heaters, cmdVars, fetch, raVars, other, hostVars, reqVars,
                   wsVars>>

\* The logout GET raised: the exception leaves _do_logout and disconnect()
\* at the `async with`; the two statements after it are not executed.
LogoutRaised(exc) ==
    /\ dcPc = "logout"
    /\ dcPc' = "raised"
    /\ dcOutcome' = Outcome(exc, 0)
    /\ UNCHANGED <<dcGets, websession, closed, last_login_attempt, clock,
                   loginPc, loginRetry, loginBudget, loginAttempts, loginLog,
                   connectResult, nConnects>>
    /\ UNCHANGED <<heaters, cmdVars, fetch, raVars, other, hostVars, reqVars,
                   wsVars>>

\* The login POST on a session that was closed (the host's session after a
\* disconnect()): RuntimeError, which _do_login does not catch.
LoginSessionClosed ==
    /\ loginPc = "posting"
    /\ ~SessionUsable
    /\ loginPc' = "raised"
    /\ loginLog' = Append(loginLog, Outcome("runtime_error", 0))
    /\ UNCHANGED <<websession, last_login_attempt, clock, loginRetry,
                   loginBudget, loginAttempts, connectResult, nConnects,
                   closed, dcVars>>
    /\ UNCHANGED <<heaters, cmdVars, fetch, raVars, other, hostVars, reqVars,
                   wsVars>>

SessionNext ==
    \/ \E supplied \in BOOLEAN, r \in 0..MaxRetry : Connect(supplied, r)
    \/ \E exc \in LoginFailures : LoginRaised(exc)
    \/ \E st \in LoginStatuses : LoginAnswered(st)
    \/ LoginSessionClosed
    \/ Disconnect
    \/ \E st \in LogoutStatuses : LogoutAnswered(st)
    \/ \E exc \in LogoutFailures : LogoutRaised(exc)

SpecSession == NewClient /\ [][SessionNext]_vars

\* C12: every disconnect() on a client that holds a transport session has
\* closed that session and cleared the handle when it ends, whatever the
\* logout request ended in (redirect, other status, timeout, connection
\* error).
C12_DisconnectReleases ==
    [][(dcPc = "logout" /\ dcPc' # "logout") =>
          (websession' = "none" /\ websession \in closed')]_vars

\* A step that is a call of disconnect().
DisconnectCalled == dcPc # "logout" /\ dcVars' # dcVars

\* C13: disconnect() on a client with no usable transport handle (cleared
\* by an earlier disconnect(), or never set because connect() was never
\* called) sends no logout request, changes no state and completes
\* normally.
C13_DisconnectNoHandleNoOp ==
    [][(DisconnectCalled /\ websession \in {"unset", "none"}) =>
          /\ dcPc' = "done"
          /\ dcGets' = 0
          /\ UNCHANGED <<websession, closed, last_login_attempt, heaters>>]_vars

(***************************************************************************)
(* Heater commands: set_temperature / set_state                            *)
(***************************************************************************)
\* The decoded acknowledgement of a command: a JSON object, given by the
\* set of its keys and the value under "status".
Ack(keys, status) == [keys |-> keys, status |-> status]
AckObjects ==
    { Ack({}, JNone),
      Ack({"statusMessage"}, JNone),
      Ack({"objectJson", "status", "statusMessage"}, JBool(TRUE)),
      Ack({"objectJson", "status", "statusMessage"}, JBool(FALSE)),
      Ack({"status"}, JNum(1)),
      Ack({"status"}, JText(1)),
      Ack({"status"}, JNone) }

\* What a command request attempt can end in.
CmdOutcomes ==
    {Timeout, ClientError, EmptyBody, TextBody} \cup {JsonBody(a) : a \in AckObjects}

\* `x is True`
IsTrue_Truthy(x) == Truthy(x)
IsTrue(x) == x = JBool(TRUE)

\* `resp and "status" in resp and resp["status"] is True`
AckOk(resp) ==
    /\ resp # None
    /\ resp[1].keys # {}
    /\ "status" \in resp[1].keys
    /\ IsTrue(resp[1].status)

\* set_temperature: `heater.set_temp = temperature` on an acknowledged command.
SetTemperatureApply(h, temperature) == [h EXCEPT !.set_temp = temperature]

\* The registry after the command got `resp` from the request helper.
\* Only set_temperature assigns to the heater; set_state assigns nothing.
CommandEffect_MirrorState(reg, op, k, arg, resp) ==
    IF ~AckOk(resp) THEN reg
    ELSE IF op = "set_temperature"
         THEN [reg EXCEPT ![k] = SetTemperatureApply(reg[k], arg)]
         ELSE [reg EXCEPT ![k].state = arg]
CommandEffect(reg, op, k, arg, resp) ==
    IF AckOk(resp) /\ op = "set_temperature"
    THEN [reg EXCEPT ![k] = SetTemperatureApply(reg[k], arg)]
    ELSE reg

\* set_temperature(heater, temperature) / set_state(heater, state) up to
\* the await of the POST.
CommandCall(op, k, arg) ==
    /\ cmdPc \in {"idle", "done", "raised"}
    /\ k \in DOMAIN heaters
    /\ cmdPc' = IF SessionUsable THEN "post" ELSE "raised"
    /\ cmdOp' = op
    /\ cmdKey' = k
    /\ cmdArg' = arg
    /\ cmdRetry' = POST_RETRY
    /\ cmdPosts' = IF SessionUsable THEN 1 ELSE 0
    /\ cmdGets' = 0
    /\ cmdResp' = None
    /\ cmdResult' = FALSE
    /\ cmdBefore' = heaters[k]
    /\ UNCHANGED <<loginVars, other, hostVars, reqVars, wsVars, heaters,
                   fetch, raVars>>

\* The request helper returned `resp`: the rest of the command.
CommandFinish(resp) ==
    /\ cmdPc' = "done"
    /\ cmdResp' = resp
    /\ cmdResult' = AckOk(resp)
    /\ heaters' = CommandEffect(heaters, cmdOp, cmdKey, cmdArg, resp)
    /\ UNCHANGED <<cmdOp, cmdKey, cmdArg, cmdRetry, cmdPosts, cmdGets, cmdBefore>>

\* asyncio.TimeoutError in _post_request or in _get_request: give up, or
\* re-invoke _get_request(command, payload, retry - 1).
CommandTimedOut ==
    /\ cmdPc \in {"post", "get"}
    /\ IF RetryExhausted(cmdRetry)
       THEN CommandFinish(None)
       ELSE /\ cmdPc' = IF SessionUsable THEN "get" ELSE "raised"
            /\ cmdRetry' = cmdRetry - 1
            /\ cmdGets' = IF SessionUsable THEN cmdGets + 1 ELSE cmdGets
            /\ UNCHANGED <<cmdOp, cmdKey, cmdArg, cmdPosts, cmdResp, cmdResult,
                           cmdBefore, heaters>>
    /\ UNCHANGED <<loginVars, other, hostVars, reqVars, wsVars, fetch, raVars>>

\* What a failed command would do if the re-connect that the commented-out
\* statistics code holds (lines 420-426) were part of the request path:
\* another login request after the failure.
CommandClientError_Reconnect ==
    /\ cmdPc \in {"post", "get"}
    /\ CommandFinish(None)
    /\ last_login_attempt' = clock
    /\ loginAttempts' = loginAttempts + 1
    /\ UNCHANGED <<websession, clock, loginPc, loginRetry, loginBudget,
                   loginLog, connectResult, nConnects, closed, dcVars>>
    /\ UNCHANGED <<other, hostVars, reqVars, wsVars, fetch, raVars>>

\* aiohttp.ClientError: None, without another attempt.
CommandClientError ==
    /\ cmdPc \in {"post", "get"}
    /\ CommandFinish(None)
    /\ UNCHANGED <<loginVars, other, hostVars, reqVars, wsVars, fetch, raVars>>

\* The request was answered: the body decides.
CommandAnswered(body) ==
    /\ cmdPc \in {"post", "get"}
    /\ CommandFinish(DecodeBody(body))
    /\ UNCHANGED <<loginVars, other, hostVars, reqVars, wsVars, fetch, raVars>>

\* The device lists the registry of SpecCmd is discovered from.
CmdDeviceLists ==
    { <<DeviceEntry(ELDOM_DEVICE_TYPE_HEATER, 1, JTs(1, 9))>>,
      <<DeviceEntry(ELDOM_DEVICE_TYPE_HEATER, 1, JTs(1, 9)),
        DeviceEntry(ELDOM_DEVICE_TYPE_HEATER, 2, JNone)>> }

CmdInit ==
    /\ LoggedIn
    /\ \E list \in CmdDeviceLists : heaters = DiscoverFrom(EmptyRegistry, list, 1).reg
    /\ CmdIdle
    /\ fetch = IdleTasks(heaters)
    /\ RefreshAllIdle
    /\ HostLoaded
    /\ RequestIdle
    /\ ChannelNew

CmdNext ==
    \/ \E k \in DOMAIN heaters, v \in 1..MaxVal : CommandCall("set_temperature", k, JNum(v))
    \/ \E k \in DOMAIN heaters, st \in {0, 1} : CommandCall("set_state", k, JNum(st))
    \/ CommandTimedOut
    \/ CommandClientError
    \/ \E body \in CmdOutcomes \ {Timeout, ClientError} : CommandAnswered(body)

SpecCmd == CmdInit /\ [][CmdNext]_vars

StatusBase(v, w) ==
    [State |-> JNum(v % 2), Power |-> JNum(10 * v), AmbientTemp |-> JNum(v),
     timerInRaw |-> TRUE, TimerSTempA |-> JNum(10 + v), SetTemp |-> JNum(v),
     PCBTemp |-> JNum(20 + v), OpenWindow |-> JNum(0),
     EnergyD |-> JNum(v), EnergyN |-> JNum(w),
     LastRefreshDate |-> JTs(v, 9)]

\* The decoded response of /api/panelconvector/{id}: a JSON object that may
\* lack "objectJson", or carry an objectJson string that is not JSON.
NoStatus == StatusBase(0, 0)
Envelope(st) == [objectJson |-> "object", status |-> st]
EnvelopeNoObjectJson == [objectJson |-> "missing", status |-> NoStatus]
EnvelopeBadObjectJson == [objectJson |-> "invalid", status |-> NoStatus]

\* `if "TimerSTempA" in heater_data["objectJson"]: ... .get("TimerSTempA")
\*  else: ... .get("SetTemp")`
SelectTarget_PreferSetTemp(st) ==
    IF st.SetTemp # JNone THEN st.SetTemp ELSE st.TimerSTempA
SelectTarget(st) ==
    IF st.timerInRaw THEN st.TimerSTempA ELSE st.SetTemp

\* `float(heater.energy_day) + float(heater.energy_night)`
EnergyTotal_DayOnly(day, night) == JNum(PyFloat(day).v)
EnergyTotal(day, night) == JNum(PyFloat(day).v + PyFloat(night).v)

\* The assignments of fetch_heater_data in their order; each stage is the
\* record after the statements up to the next call that can raise.
FetchStage1(h, st) ==
    [h EXCEPT !.raw_data = Some(st), !.state = st.State, !.power = st.Power,
              !.current_temp = st.AmbientTemp]
FetchStage2(h, st) ==
    [FetchStage1(h, st) EXCEPT !.set_temp = PyFloat(SelectTarget(st))]
FetchStage3(h, st) ==
    [FetchStage2(h, st) EXCEPT !.pcb_temp = PyFloat(st.PCBTemp),
                               !.open_window = st.OpenWindow]
FetchStage4(h, st) ==
    [FetchStage3(h, st) EXCEPT !.energy_day = PyFloat(st.EnergyD)]
FetchStage5(h, st) ==
    [FetchStage4(h, st) EXCEPT
        !.energy_night = PyFloat(st.EnergyN),
        !.energy_total = EnergyTotal(PyFloat(st.EnergyD), PyFloat(st.EnergyN))]
FetchStage6_AvailableAlways(h, st) ==
    [FetchStage5(h, st) EXCEPT !.available = JBool(TRUE)]
FetchStage6(h, st) ==
    IF Truthy(st.LastRefreshDate)
    THEN [FetchStage5(h, st) EXCEPT !.last_updated = ParseDate(st.LastRefreshDate),
                                    !.available = JBool(TRUE)]
    ELSE [FetchStage5(h, st) EXCEPT !.available = JBool(FALSE)]

\* The branch `if heater_data is not None:` for the decoded response env:
\* the record it leaves and whether it raised instead of returning True.
FetchApply(h, env) ==
    IF env.objectJson # "object" THEN [h |-> h, raised |-> TRUE]
    ELSE LET st == env.status IN
         IF ~FloatOk(SelectTarget(st)) THEN [h |-> FetchStage1(h, st), raised |-> TRUE]
         ELSE IF ~FloatOk(st.PCBTemp) THEN [h |-> FetchStage2(h, st), raised |-> TRUE]
         ELSE IF ~FloatOk(st.EnergyD) THEN [h |-> FetchStage3(h, st), raised |-> TRUE]
         ELSE IF ~FloatOk(st.EnergyN) THEN [h |-> FetchStage4(h, st), raised |-> TRUE]
         ELSE IF Truthy(st.LastRefreshDate) /\ ~ParseDateOk(st.LastRefreshDate)
              THEN [h |-> FetchStage5(h, st), raised |-> TRUE]
         ELSE [h |-> FetchStage6(h, st), raised |-> FALSE]

\* The branch `else: heater.available = False`.
FetchFailed_Reset(h) == [NewHeater EXCEPT !.available = JBool(FALSE)]
FetchFailed(h) == [h EXCEPT !.available = JBool(FALSE)]

\* asyncio.gather(*tasks) in fetch_all_heaters, seen from a task that ends:
\* the first exception of a task is re-raised in fetch_all_heaters at once
\* (the other tasks go on); the call returns {**self.heaters} when the last
\* task has ended.
GatherStep(k, raised, reg, tasks) ==
    IF raPc # "gather" THEN UNCHANGED raVars
    ELSE IF raised
         THEN /\ raPc' = "raised"
              /\ UNCHANGED <<raRetry, raStartEmpty, raDiscGets, raReturn, raList>>
         ELSE IF \A x \in DOMAIN tasks : tasks[x].pc = "done"
              THEN /\ raPc' = "returned"
                   /\ raReturn' = reg
                   /\ UNCHANGED <<raRetry, raStartEmpty, raDiscGets, raList>>
              ELSE UNCHANGED raVars

\* A task whose first GET has been sent.
StartedTask ==
    [pc |-> "get", retry |-> GET_RETRY, resp |-> None, result |-> FALSE]

\* A task that ended with an exception of self.websession.get(...) itself:
\* AttributeError on a cleared handle, RuntimeError on a closed session.
\* _get_request and _post_request catch neither.
RaisedTask ==
    [pc |-> "raised", retry |-> 0, resp |-> None, result |-> FALSE]

\* fetch_heater_data up to the first await of its GET.
FirstGet == IF SessionUsable THEN StartedTask ELSE RaisedTask

\* fetch_heater_data(heater) called on its own (EldomHeater.async_update),
\* up to the await of the GET.
RefreshOneCall(k) ==
    /\ k \in DOMAIN heaters
    /\ k \in DOMAIN fetch => fetch[k].pc # "get"
    /\ raPc \notin {"discover", "gather"}
    /\ fetch' = [x \in DOMAIN fetch \cup {k} |->
                    IF x = k THEN FirstGet ELSE fetch[x]]
    /\ UNCHANGED <<loginVars, other, hostVars, reqVars, wsVars, heaters,
                   cmdVars, raVars>>

\* _get_request returned `resp` to fetch_heater_data: the rest of it.
FetchFinish(k, resp) ==
    LET r == IF resp = None
             THEN [h |-> FetchFailed(heaters[k]), raised |-> FALSE]
             ELSE FetchApply(heaters[k], resp[1])
        task == [fetch[k] EXCEPT !.pc = IF r.raised THEN "raised" ELSE "done",
                                 !.retry = 0,
                                 !.resp = resp,
                                 !.result = (resp # None /\ ~r.raised)]
    IN /\ heaters' = [heaters EXCEPT ![k] = r.h]
       /\ fetch' = [fetch EXCEPT ![k] = task]
       /\ GatherStep(k, r.raised, heaters', fetch')

\* asyncio.TimeoutError in _get_request.
FetchTimedOut(k) ==
    /\ k \in DOMAIN fetch
    /\ fetch[k].pc = "get"
    /\ IF RetryExhausted(fetch[k].retry)
       THEN FetchFinish(k, None)
       ELSE IF SessionUsable
            THEN /\ fetch' = [fetch EXCEPT ![k].retry = @ - 1]
                 /\ UNCHANGED <<heaters, raVars>>
            ELSE /\ fetch' = [fetch EXCEPT ![k] = RaisedTask]
                 /\ UNCHANGED heaters
                 /\ GatherStep(k, TRUE, heaters, fetch')
    /\ UNCHANGED <<loginVars, other, hostVars, reqVars, wsVars, cmdVars>>

\* aiohttp.ClientError in _get_request.
FetchClientError(k) ==
    /\ k \in DOMAIN fetch
    /\ fetch[k].pc = "get"
    /\ FetchFinish(k, None)
    /\ UNCHANGED <<loginVars, other, hostVars, reqVars, wsVars, cmdVars>>

\* The GET was answered.
FetchAnswered(k, body) ==
    /\ k \in DOMAIN fetch
    /\ fetch[k].pc = "get"
    /\ FetchFinish(k, DecodeBody(body))
    /\ UNCHANGED <<loginVars, other, hostVars, reqVars, wsVars, cmdVars>>

(***************************************************************************)
(* SpecOne: fetch_heater_data on the heater of a discovered registry, fed   *)
(* with every shape of status payload.                                     *)
(***************************************************************************)
Vals == 1..MaxVal

\* Well-formed payloads.
GoodStatuses == {StatusBase(v, w) : v \in Vals, w \in Vals}

\* Payloads that differ from a well-formed one in the target temperature
\* fields.
TargetVariants(b) ==
    { [b EXCEPT !.timerInRaw = FALSE, !.TimerSTempA = JNone],
      [b EXCEPT !.SetTemp = JNone],
      [b EXCEPT !.SetTemp = JNumStr(b.SetTemp.v)],
      [b EXCEPT !.TimerSTempA = JNone],
      [b EXCEPT !.timerInRaw = FALSE, !.TimerSTempA = JNone, !.SetTemp = JNone] }

\* ... in a field float() is applied to.
FieldVariants(b) ==
    { [b EXCEPT !.PCBTemp = JNone],
      [b EXCEPT !.EnergyD = JNone],
      [b EXCEPT !.EnergyN = JText(1)] }

\* ... in the timestamp.
DateVariants(b) ==
    { [b EXCEPT !.LastRefreshDate = JNone],
      [b EXCEPT !.LastRefreshDate = JEmpty],
      [b EXCEPT !.LastRefreshDate = JText(2)],
      [b EXCEPT !.LastRefreshDate = JTs(b.LastRefreshDate.v, 0)] }

\* The variants are taken of two well-formed payloads; the well-formed ones
\* range over all values.
VariantBases == {StatusBase(1, 2), StatusBase(2, 1)}
AllStatuses ==
    GoodStatuses \cup
    UNION { TargetVariants(b) \cup FieldVariants(b) \cup DateVariants(b) : b \in VariantBases }

\* What a status request attempt can be answered with.
OneBodies ==
    {EmptyBody, TextBody, JsonBody(EnvelopeNoObjectJson), JsonBody(EnvelopeBadObjectJson)}
    \cup {JsonBody(Envelope(st)) : st \in AllStatuses}

OneDeviceLists ==
    { <<DeviceEntry(ELDOM_DEVICE_TYPE_HEATER, 1, JTs(1, 9))>>,
      <<DeviceEntry(ELDOM_DEVICE_TYPE_HEATER, 1, JNone)>> }

OneInit ==
    /\ LoggedIn
    /\ \E list \in OneDeviceLists : heaters = DiscoverFrom(EmptyRegistry, list, 1).reg
    /\ CmdIdle
    /\ fetch = IdleTasks(heaters)
    /\ RefreshAllIdle
    /\ HostLoaded
    /\ RequestIdle
    /\ ChannelNew

OneNext ==
    \/ \E k \in DOMAIN heaters : RefreshOneCall(k)
    \/ \E k \in DOMAIN heaters : FetchTimedOut(k)
    \/ \E k \in DOMAIN heaters : FetchClientError(k)
    \/ \E k \in DOMAIN heaters, body \in OneBodies : FetchAnswered(k, body)

SpecOne == OneInit /\ [][OneNext]_vars

(***************************************************************************)
(* Claims about fetch_heater_data                                          *)
(***************************************************************************)
\* The status object of the payload the last fetch of heater k handed to
\* fetch_heater_data (defined when that fetch got a decoded response).
Applied(k) == fetch[k].resp[1].status
Succeeded(k) == fetch[k].pc = "done" /\ fetch[k].result
GotStatus(k) ==
    /\ fetch[k].pc \in {"done", "raised"}
    /\ fetch[k].resp # None
    /\ fetch[k].resp[1].objectJson = "object"

\* C4: after every refresh that returns success, energy_total is the sum of
\* energy_day and energy_night, which are the values of the payload just
\* applied.
C4_EnergyTotal ==
    \A k \in DOMAIN heaters :
        Succeeded(k) =>
            /\ heaters[k].energy_day.v = Applied(k).EnergyD.v
            /\ heaters[k].energy_night.v = Applied(k).EnergyN.v
            /\ heaters[k].energy_total.t = "num"
            /\ heaters[k].energy_total.v =
                   heaters[k].energy_day.v + heaters[k].energy_night.v

\* A successful refresh with different day and night counters.
C4_Witness ==
    \E k \in DOMAIN heaters :
        /\ Succeeded(k)
        /\ Applied(k).EnergyD = JNum(2)
        /\ Applied(k).EnergyN = JNum(1)
        /\ heaters[k].energy_total = JNum(3)

\* C5 (as claimed): once refresh_one has processed a status payload, the
\* heater is available iff the payload's timestamp is present and parses;
\* with an absent, empty or unparseable timestamp it is unavailable and the
\* data fields hold the payload's values.  Stated for payloads whose data
\* fields all convert.
DataFieldsConvert(st) ==
    /\ FloatOk(IF st.timerInRaw THEN st.TimerSTempA ELSE st.SetTemp)
    /\ FloatOk(st.PCBTemp)
    /\ FloatOk(st.EnergyD)
    /\ FloatOk(st.EnergyN)
TimestampParses(st) ==
    st.LastRefreshDate.t = "ts"
DataFieldsFrom(h, st) ==
    /\ h.state = st.State
    /\ h.power = st.Power
    /\ h.current_temp = st.AmbientTemp
    /\ h.pcb_temp.v = st.PCBTemp.v
    /\ h.open_window = st.OpenWindow
    /\ h.energy_day.v = st.EnergyD.v
    /\ h.energy_night.v = st.EnergyN.v
C5_AvailableIffTimestamp ==
    \A k \in DOMAIN heaters :
        (GotStatus(k) /\ DataFieldsConvert(Applied(k))) =>
            /\ heaters[k].available = JBool(TimestampParses(Applied(k)))
            /\ DataFieldsFrom(heaters[k], Applied(k))

\* C8: on a successful refresh the target temperature is the payload's
\* TimerSTempA whenever the raw payload contains TimerSTempA (SetTemp
\* present or not), and its SetTemp only when it does not.
C8_TargetSelection ==
    \A k \in DOMAIN heaters :
        Succeeded(k) =>
            /\ Applied(k).timerInRaw =>
                   heaters[k].set_temp = JNum(Applied(k).TimerSTempA.v)
            /\ ~Applied(k).timerInRaw =>
                   heaters[k].set_temp = JNum(Applied(k).SetTemp.v)

\* Both fields in the payload, with different values: TimerSTempA wins.
C8_Witness ==
    \E k \in DOMAIN heaters :
        /\ Succeeded(k)
        /\ Applied(k).timerInRaw
        /\ Applied(k).SetTemp.t = "num"
        /\ Applied(k).TimerSTempA.t = "num"
        /\ Applied(k).SetTemp.v # Applied(k).TimerSTempA.v
        /\ heaters[k].set_temp = JNum(Applied(k).TimerSTempA.v)

\* C9 (as claimed): refresh_one always returns a boolean, no exception
\* reaches its caller; a response that cannot be decoded into a complete
\* status ends in a failure result with the device marked unavailable.
C9_NeverRaises ==
    \A k \in DOMAIN heaters :
        /\ fetch[k].pc # "raised"
        /\ (fetch[k].pc = "done" /\ ~fetch[k].result) =>
               heaters[k].available = JBool(FALSE)

DeviceList(items) == [isList |-> TRUE, items |-> items]
NotAList == [isList |-> FALSE, items |-> <<>>]

\* `if not self.heaters:`
NeedsDiscovery_Always(reg) == TRUE
NeedsDiscovery(reg) == DOMAIN reg = {}

\* `for heater in self.heaters.values(): tasks.append(...)` and the start of
\* asyncio.gather: every task runs up to the await of its first GET.
LaunchTasks_OneAtATime(reg) ==
    [k \in DOMAIN reg |->
        IF k = (CHOOSE x \in DOMAIN reg : TRUE) THEN FirstGet ELSE IdleTask]
LaunchTasks(reg) == [k \in DOMAIN reg |-> FirstGet]

\* Lines 285-291 for registry reg: the tasks are launched and gathered; with
\* no heater there is nothing to wait for and {} is returned.  Without a
\* usable session every task raises in its first step, and gather re-raises.
GatherStart(reg) ==
    /\ fetch' = LaunchTasks(reg)
    /\ IF DOMAIN reg = {}
       THEN /\ raPc' = "returned"
            /\ raReturn' = reg
       ELSE /\ raPc' = IF SessionUsable THEN "gather" ELSE "raised"
            /\ UNCHANGED raReturn

\* fetch_all_heaters() up to its first await.  The host's coordinator calls
\* it again only after the requests of the previous call have ended.
RefreshAllCall ==
    /\ raPc \in {"idle", "returned", "raised"}
    /\ \A k \in DOMAIN fetch : fetch[k].pc # "get"
    /\ raStartEmpty' = (heaters = EmptyRegistry)
    /\ raList' = None
    /\ IF NeedsDiscovery(heaters)
       THEN /\ heaters' = EmptyRegistry
            /\ fetch' = NoTasks
            /\ raPc' = IF SessionUsable THEN "discover" ELSE "raised"
            /\ raRetry' = GET_RETRY
            /\ raDiscGets' = IF SessionUsable THEN 1 ELSE 0
            /\ UNCHANGED raReturn
       ELSE /\ GatherStart(heaters)
            /\ raRetry' = 0
            /\ raDiscGets' = 0
            /\ UNCHANGED heaters
    /\ UNCHANGED <<loginVars, other, hostVars, reqVars, wsVars, cmdVars>>

\* get_device_list() returned device_list: the rest of the discovery branch
\* and what follows it.
DiscoveryFinish(device_list) ==
    /\ raList' = device_list
    /\ IF device_list = None
       THEN /\ GatherStart(heaters)
            /\ UNCHANGED heaters
       ELSE IF ~device_list[1].isList
            THEN /\ raPc' = "raised"
                 /\ UNCHANGED <<heaters, fetch, raReturn>>
            ELSE LET r == DiscoverFrom(heaters, device_list[1].items, 1) IN
                 /\ heaters' = r.reg
                 /\ IF r.raised
                    THEN /\ raPc' = "raised"
                         /\ fetch' = IdleTasks(r.reg)
                         /\ UNCHANGED raReturn
                    ELSE GatherStart(r.reg)

\* asyncio.TimeoutError in the device-list request.
DiscoveryTimedOut ==
    /\ raPc = "discover"
    /\ IF RetryExhausted(raRetry)
       THEN /\ DiscoveryFinish(None)
            /\ UNCHANGED <<raRetry, raDiscGets>>
       ELSE /\ raRetry' = raRetry - 1
            /\ raPc' = IF SessionUsable THEN "discover" ELSE "raised"
            /\ raDiscGets' = IF SessionUsable THEN raDiscGets + 1 ELSE raDiscGets
            /\ UNCHANGED <<heaters, fetch, raReturn, raList>>
    /\ UNCHANGED <<loginVars, other, hostVars, reqVars, wsVars, cmdVars,
                   raStartEmpty>>

\* aiohttp.ClientError in the device-list request.
DiscoveryClientError ==
    /\ raPc = "discover"
    /\ DiscoveryFinish(None)
    /\ UNCHANGED <<loginVars, other, hostVars, reqVars, wsVars, cmdVars,
                   raRetry, raStartEmpty, raDiscGets>>

\* The device-list request was answered.
DiscoveryAnswered(body) ==
    /\ raPc = "discover"
    /\ DiscoveryFinish(DecodeBody(body))
    /\ UNCHANGED <<loginVars, other, hostVars, reqVars, wsVars, cmdVars,
                   raRetry, raStartEmpty, raDiscGets>>

(***************************************************************************)
(* SpecRefresh: a client after login on which the host calls               *)
(* fetch_all_heaters again and again.                                      *)
(***************************************************************************)
HeaterEntry(rid, ts) == DeviceEntry(ELDOM_DEVICE_TYPE_HEATER, rid, ts)
OtherEntry(rid) == DeviceEntry(1, rid, JTs(1, 9))

RefreshDeviceLists ==
    { <<>>,
      <<OtherEntry(3)>>,
      <<HeaterEntry(1, JTs(1, 9))>>,
      <<HeaterEntry(1, JTs(1, 9)), OtherEntry(3), HeaterEntry(2, JNone)>>,
      <<HeaterEntry(1, JNone), HeaterEntry(2, JText(2))>> }

DiscoveryBodies ==
    {EmptyBody, TextBody, JsonBody(NotAList)}
    \cup {JsonBody(DeviceList(l)) : l \in RefreshDeviceLists}

\* The status answers of SpecRefresh: two well-formed payloads, an empty
\* body and an envelope without objectJson.
RefreshBodies ==
    {EmptyBody, JsonBody(EnvelopeNoObjectJson),
     JsonBody(Envelope(StatusBase(1, 2))), JsonBody(Envelope(StatusBase(2, 1)))}

RefreshInit ==
    /\ LoggedIn
    /\ heaters = EmptyRegistry
    /\ CmdIdle
    /\ fetch = NoTasks
    /\ RefreshAllIdle
    /\ HostAt("first_refresh", TRUE)
    /\ RequestIdle
    /\ ChannelNew

RefreshNext ==
    \/ RefreshAllCall
    \/ DiscoveryTimedOut
    \/ DiscoveryClientError
    \/ \E body \in DiscoveryBodies : DiscoveryAnswered(body)
    \/ \E k \in DOMAIN heaters : FetchTimedOut(k)
    \/ \E k \in DOMAIN heaters : FetchClientError(k)
    \/ \E k \in DOMAIN heaters, body \in RefreshBodies : FetchAnswered(k, body)

SpecRefresh == RefreshInit /\ [][RefreshNext]_vars

(***************************************************************************)
(* Claims about fetch_all_heaters                                          *)
(***************************************************************************)
\* C6: a fetch_all_heaters call sends a device-list request iff the
\* registry is empty when the call starts: never once the registry holds a
\* heater, always while it holds none.
C6_DiscoveryIffEmpty ==
    raPc # "idle" => ((raDiscGets >= 1) <=> raStartEmpty)

\* A call on a populated registry that returned without any device-list
\* request.
C6_Witness ==
    /\ raPc = "returned"
    /\ ~raStartEmpty
    /\ raDiscGets = 0
    /\ Cardinality(DOMAIN raReturn) = 2

\* Every per-device request of the current call has ended.
AllFetchesEnded ==
    /\ raPc \in {"gather", "returned", "raised"}
    /\ DOMAIN fetch # {}
    /\ \A k \in DOMAIN fetch : fetch[k].pc \in {"done", "raised"}

\* C7 (as claimed): whatever subset of the per-device fetches fails and in
\* whatever order they end, fetch_all_heaters returns the full registry
\* mapping, every heater whose fetch failed is unavailable and every heater
\* whose fetch delivered a status holds the data of its own payload.
C7_PartialFailureIsolated ==
    AllFetchesEnded =>
        /\ raPc = "returned"
        /\ DOMAIN raReturn = DOMAIN heaters
        /\ \A k \in DOMAIN heaters :
              IF fetch[k].result
              THEN DataFieldsFrom(heaters[k], Applied(k))
              ELSE heaters[k].available = JBool(FALSE)

\* C15: when fetch_all_heaters starts to wait for its tasks there is one
\* task per registry key and each has sent its first status request (so
\* all are sent before any response is processed); while it waits no task
\* is unstarted, and responses are taken in whatever order they arrive;
\* it returns only when every task has finished, and the mapping returned
\* has exactly the registry's keys.
C15_FanOut ==
    [][/\ (raPc # "gather" /\ raPc' = "gather") =>
             /\ DOMAIN fetch' = DOMAIN heaters'
             /\ \A k \in DOMAIN fetch' : fetch'[k] = StartedTask
       /\ raPc' = "gather" =>
             /\ DOMAIN fetch' = DOMAIN heaters'
             /\ \A k \in DOMAIN fetch' : fetch'[k].pc # "idle"
       /\ (raPc # "returned" /\ raPc' = "returned") =>
             /\ \A k \in DOMAIN fetch' : fetch'[k].pc = "done"
             /\ DOMAIN fetch' = DOMAIN heaters'
             /\ DOMAIN raReturn' = DOMAIN heaters'
             /\ raReturn' = heaters']_vars

\* Two heaters: the response of the second was processed while the first
\* request is still waiting, and the call has not returned.
C15_Witness ==
    /\ raPc = "gather"
    /\ DOMAIN heaters = {JText(1), JText(2)}
    /\ fetch[JText(2)].pc = "done"
    /\ fetch[JText(2)].result
    /\ fetch[JText(1)].pc = "get"
    /\ fetch[JText(1)].retry = GET_RETRY

\* The realDeviceId values of the heater-type entries of a device list.
HeaterKeys(list) ==
    {list[i].realDeviceId : i \in {j \in 1..Len(list) : IsHeaterEntry(list[j])}}

\* The current call ran discovery and get_device_list() gave it a list.
DiscoveredList ==
    /\ raPc \in {"gather", "returned", "raised"}
    /\ raList # None
    /\ raList[1].isList

\* C17: after a discovery that received a device list, the keys of the
\* registry are exactly the realDeviceId values of the entries of heater
\* type (entries of other types add none); and every record is stored
\* under its own real_device_id.
C17_KeysAreHeaterIds ==
    /\ DiscoveredList => DOMAIN heaters = HeaterKeys(raList[1].items)
    /\ \A k \in DOMAIN heaters : heaters[k].real_device_id = k

(***************************************************************************)
(* SpecOverlap: two fetch_all_heaters calls on one client that may overlap  *)
(* (the second is started while the first waits at an await), with         *)
(* set_temperature and set_state called in between; fetch_heater_data runs *)
(* as the tasks of both calls.                                             *)
(***************************************************************************)
\* The event loop resumes the other fetch_all_heaters call: the variables
\* of the call that was stepping are put aside, those of the other one
\* become current.  self.heaters is shared by both.
SwitchCall ==
    /\ raPc' = other.pc
    /\ raRetry' = other.retry
    /\ raStartEmpty' = other.startEmpty
    /\ raDiscGets' = other.discGets
    /\ raReturn' = other.return
    /\ raList' = other.list
    /\ fetch' = other.fetch
    /\ other' = CallRecord(raPc, raRetry, raStartEmpty, raDiscGets, raReturn,
                           raList, fetch)
    /\ UNCHANGED <<loginVars, heaters, cmdVars, hostVars, reqVars, wsVars>>

\* The device lists the two calls may be answered with: one heater, or
\* two with that heater in second place.
OverlapDeviceLists ==
    { <<HeaterEntry(1, JTs(1, 9))>>,
      <<HeaterEntry(2, JTs(2, 9)), HeaterEntry(1, JNone)>> }

OverlapNext ==
    \/ RefreshAllCall
    \/ SwitchCall
    \/ DiscoveryClientError
    \/ \E l \in OverlapDeviceLists : DiscoveryAnswered(JsonBody(DeviceList(l)))
    \/ \E k \in DOMAIN heaters : FetchAnswered(k, JsonBody(Envelope(StatusBase(1, 2))))
    \/ \E k \in DOMAIN heaters : CommandCall("set_temperature", k, JNum(MaxVal))
    \/ \E k \in DOMAIN heaters : CommandCall("set_state", k, JNum(0))
    \/ CommandAnswered(JsonBody(Ack({"status"}, JBool(TRUE))))

SpecOverlap == RefreshInit /\ [][OverlapNext]_vars

\* C16: a device identifier that is a key of the registry stays a key, and
\* stays mapped to the same Heater object, in every step of every
\* interleaving of fetch_all_heaters (two calls overlapping on an empty
\* registry included), fetch_heater_data, set_temperature and set_state.
C16_RegistryStable ==
    [][\A k \in DOMAIN heaters :
          /\ k \in DOMAIN heaters'
          /\ heaters'[k].obj = heaters[k].obj]_vars

\* Two calls that both started on the empty registry and both ran their
\* discovery loop, the later one over the records the earlier one created;
\* the registry holds two distinct objects, one of them already refreshed.
C16_Witness ==
    /\ raStartEmpty /\ raDiscGets = 1 /\ raPc \in {"gather", "returned"}
    /\ other.startEmpty /\ other.discGets = 1 /\ other.pc \in {"gather", "returned"}
    /\ DOMAIN heaters = {JText(1), JText(2)}
    /\ heaters[JText(1)].obj # heaters[JText(2)].obj
    /\ heaters[JText(1)].obj # 0
    /\ heaters[JText(1)].state # JNone
    /\ DOMAIN other.fetch # DOMAIN fetch

(***************************************************************************)
(* SpecSetup: the life of one integration entry in the host:                *)
(* async_setup_entry, the coordinator's refreshes, async_unload_entry.     *)
(***************************************************************************)
\* `if not await myeldom_data_connection.connect(...): raise ConfigEntryNotReady`
ConnectFailed_Ignored(result) == FALSE
ConnectFailed(result) == ~result

\* async_setup_entry was called and has created the client.
SetupInit ==
    /\ LoginInit
    /\ heaters = EmptyRegistry
    /\ CmdIdle
    /\ fetch = NoTasks
    /\ RefreshAllIdle
    /\ HostAt("setup", FALSE)
    /\ RequestIdle
    /\ ChannelNew

\* connect(websession=async_get_clientsession(hass)), retry left at its
\* default.
SetupConnect ==
    /\ entryPc = "setup"
    /\ loginPc = "idle"
    /\ Connect(TRUE, DEFAULT_LOGIN_RETRY)

\* connect() returned: ConfigEntryNotReady, or the coordinator is created.
SetupContinue ==
    /\ entryPc = "setup"
    /\ loginPc = "done"
    /\ IF ConnectFailed(connectResult)
       THEN /\ entryPc' = "not_ready"
            /\ UNCHANGED coordinator
       ELSE /\ entryPc' = "first_refresh"
            /\ coordinator' = TRUE
    /\ UNCHANGED <<loginVars, heaters, cmdVars, fetch, raVars, other,
                   reqVars, wsVars>>

\* async_config_entry_first_refresh(): the coordinator calls its
\* update_method, fetch_all_heaters.
FirstRefresh ==
    /\ entryPc = "first_refresh"
    /\ raPc = "idle"
    /\ RefreshAllCall

\* The first refresh ended: the platforms are set up, or (the update
\* failed) the coordinator raises ConfigEntryNotReady.
SetupFinish ==
    /\ entryPc = "first_refresh"
    /\ raPc \in {"returned", "raised"}
    /\ entryPc' = IF raPc = "returned" THEN "loaded" ELSE "not_ready"
    /\ UNCHANGED <<coordinator, loginVars, heaters, cmdVars, fetch, raVars, other,
                   reqVars, wsVars>>

\* update_interval: the coordinator calls fetch_all_heaters again.
ScheduledRefresh ==
    /\ entryPc = "loaded"
    /\ RefreshAllCall

\* async_unload_entry: unloads the platforms, nothing else.
UnloadEntry ==
    /\ entryPc = "loaded"
    /\ entryPc' = "unloaded"
    /\ UNCHANGED <<coordinator, loginVars, heaters, cmdVars, fetch, raVars, other,
                   reqVars, wsVars>>

\* The status answers of SpecSetup: a well-formed payload and an envelope
\* without objectJson.
SetupBodies ==
    {JsonBody(EnvelopeNoObjectJson), JsonBody(Envelope(StatusBase(1, 2)))}

SetupNext ==
    \/ SetupConnect
    \/ \E exc \in LoginFailures : LoginRaised(exc)
    \/ \E st \in LoginStatuses : LoginAnswered(st)
    \/ SetupContinue
    \/ FirstRefresh
    \/ SetupFinish
    \/ ScheduledRefresh
    \/ UnloadEntry
    \/ DiscoveryClientError
    \/ \E l \in OverlapDeviceLists : DiscoveryAnswered(JsonBody(DeviceList(l)))
    \/ \E k \in DOMAIN heaters : FetchClientError(k)
    \/ \E k \in DOMAIN heaters, body \in SetupBodies : FetchAnswered(k, body)

SpecSetup == SetupInit /\ [][SetupNext]_vars

\* C18: in async_setup_entry the coordinator exists and a refresh has been
\* issued only if connect() returned success; when connect() returned
\* failure, setup ends not ready, with no coordinator, and no device-list
\* or status request is sent in any later state.
C18_RefreshOnlyAfterConnect ==
    /\ (coordinator \/ raPc # "idle" \/ raDiscGets # 0 \/ fetch # NoTasks) =>
           (loginPc = "done" /\ connectResult)
    /\ (loginPc = "done" /\ ~connectResult /\ entryPc # "setup") =>
           /\ entryPc = "not_ready"
           /\ ~coordinator
           /\ raPc = "idle" /\ raDiscGets = 0 /\ fetch = NoTasks

\* Setup ended not ready after a login that timed out three times.
C18_Witness ==
    /\ entryPc = "not_ready"
    /\ loginPc = "done"
    /\ ~connectResult
    /\ loginAttempts = DEFAULT_LOGIN_RETRY + 1
    /\ raPc = "idle"

\* C19: for an integration entry connect() is invoked exactly once, at
\* setup, and when the entry has been unloaded disconnect() has been
\* invoked once: the logout request of the session opened at setup was
\* sent.
C19_SessionPair ==
    /\ nConnects <= 1
    /\ entryPc \notin {"none", "setup"} => nConnects = 1
    /\ entryPc = "unloaded" => (dcPc # "idle" /\ dcGets = 1)

(***************************************************************************)
(* SpecTeardown: a logged-in client on which disconnect() is called while   *)
(* refreshes and commands are running or are started afterwards.           *)
(***************************************************************************)
\* The registry at the start: empty, or one heater that was refreshed.
TeardownRegistries ==
    { EmptyRegistry,
      [k \in {JText(1)} |->
          FetchApply(DiscoverFrom(EmptyRegistry, <<HeaterEntry(1, JTs(1, 9))>>, 1).reg[k],
                     Envelope(StatusBase(1, 2))).h] }

TeardownInit ==
    /\ LoggedIn
    /\ heaters \in TeardownRegistries
    /\ CmdIdle
    /\ fetch = IdleTasks(heaters)
    /\ RefreshAllIdle
    /\ HostNone
    /\ RequestIdle
    /\ ChannelNew

TeardownNext ==
    \/ Disconnect
    \/ LogoutAnswered(HTTP_FOUND)
    \/ RefreshAllCall
    \/ DiscoveryTimedOut
    \/ DiscoveryClientError
    \/ \E k \in DOMAIN heaters : RefreshOneCall(k)
    \/ \E k \in DOMAIN heaters : FetchTimedOut(k)
    \/ \E k \in DOMAIN heaters : FetchClientError(k)
    \/ \E k \in DOMAIN heaters : FetchAnswered(k, JsonBody(Envelope(StatusBase(2, 1))))
    \/ \E k \in DOMAIN heaters : CommandCall("set_temperature", k, JNum(MaxVal))
    \/ \E k \in DOMAIN heaters : CommandCall("set_state", k, JNum(0))
    \/ CommandTimedOut
    \/ CommandClientError
    \/ CommandAnswered(JsonBody(Ack({"status"}, JBool(TRUE))))

SpecTeardown == TeardownInit /\ [][TeardownNext]_vars

\* disconnect() completed: the session is closed and the handle cleared.
TornDown == websession = "none" /\ dcPc = "done"

\* C20: once the session has been torn down, no refresh_one, refresh_all,
\* set_temperature or set_state, started later or in flight at that moment,
\* ends by raising: each ends with a failure result after a bounded number
\* of attempts.
C20_FailsWithoutRaising ==
    TornDown =>
        /\ cmdPc # "raised"
        /\ raPc # "raised"
        /\ \A k \in DOMAIN fetch : fetch[k].pc # "raised"

(***************************************************************************)
(* SpecSetState: set_state on heaters that were refreshed before, with     *)
(* fetch_heater_data (EldomHeater.async_update) running in between.        *)
(***************************************************************************)
\* The registry after every heater of reg was refreshed from status st.
RefreshedFrom(reg, st) ==
    [k \in DOMAIN reg |-> FetchApply(reg[k], Envelope(st)).h]

SetStateInit ==
    /\ LoggedIn
    /\ heaters = RefreshedFrom(
                     DiscoverFrom(EmptyRegistry, <<HeaterEntry(1, JTs(1, 9))>>, 1).reg,
                     StatusBase(1, 2))
    /\ CmdIdle
    /\ fetch = IdleTasks(heaters)
    /\ RefreshAllIdle
    /\ HostLoaded
    /\ RequestIdle
    /\ ChannelNew

SetStateNext ==
    \/ \E k \in DOMAIN heaters, st \in {0, 1} : CommandCall("set_state", k, JNum(st))
    \/ CommandTimedOut
    \/ CommandClientError
    \/ \E body \in CmdOutcomes \ {Timeout, ClientError} : CommandAnswered(body)
    \/ \E k \in DOMAIN heaters : RefreshOneCall(k)
    \/ \E k \in DOMAIN heaters : FetchTimedOut(k)
    \/ \E k \in DOMAIN heaters : FetchClientError(k)
    \/ \E k \in DOMAIN heaters, body \in RefreshBodies : FetchAnswered(k, body)

SpecSetState == SetStateInit /\ [][SetStateNext]_vars

\* A step of the running command (not of a refresh).
CommandStep == cmdVars' # cmdVars

\* C11: no step of set_state(h, s) changes a field of a heater record,
\* whatever the outcome (so h.state keeps the value of the last refresh
\* until a refresh writes it); and set_state returns success iff the
\* response is a decoded object whose "status" is exactly true.
C11_SetStateFrame ==
    [][(CommandStep /\ cmdOp' = "set_state") =>
          /\ heaters' = heaters
          /\ cmdPc' = "done" =>
                (cmdResult' <=> /\ cmdResp' # None
                                /\ "status" \in cmdResp'[1].keys
                                /\ cmdResp'[1].status = JBool(TRUE))]_vars

\* An acknowledged set_state(h, 0) on a heater whose last refresh read
\* state 1: the record still says 1.
C11_Witness ==
    /\ cmdPc = "done"
    /\ cmdOp = "set_state"
    /\ cmdResult
    /\ cmdArg = JNum(0)
    /\ heaters[cmdKey].state = JNum(1)
    /\ heaters[cmdKey] = cmdBefore

(***************************************************************************)
(* One call of a request helper, followed attempt by attempt               *)
(* (_get_request, lines 163-207; _post_request, lines 209-254).            *)
(***************************************************************************)
RequestMethods == {"GET", "POST"}
\* Paths the client requests: get_device_list's and set_temperature's.
RequestCommands == {"getmy", "setTemperature"}
\* HTTP status codes of an answer; the helpers never read resp.status.
RequestStatuses == {200, HTTP_FOUND, 500}

\* One attempt: the method and path it used, what it ended in and, when it
\* was answered, the status code of the answer (0 otherwise).
Attempt(m, command, outcome, status) ==
    [method |-> m, command |-> command, outcome |-> outcome, status |-> status]

\* _get_request(command, payload) / _post_request(command, payload): the
\* default budget, and the first attempt is sent.
RequestCall(m, command) ==
    /\ reqPc \in {"idle", "done"}
    /\ SessionUsable
    /\ reqPc' = "wait"
    /\ reqMethod' = m
    /\ reqCommand' = command
    /\ reqRetry' = IF m = "GET" THEN GET_RETRY ELSE POST_RETRY
    /\ reqLog' = <<>>
    /\ reqResult' = None
    /\ UNCHANGED <<loginVars, heaters, cmdVars, fetch, raVars, other, hostVars,
                   wsVars>>

\* The attempt in flight raises exc (asyncio.TimeoutError or
\* aiohttp.ClientError).  On the retry branch: `if retry < 1: return None`,
\* else `return await self._get_request(command, payload, retry - 1)`.
RequestRaised(exc) ==
    /\ reqPc = "wait"
    /\ reqLog' = Append(reqLog, Attempt(reqMethod, reqCommand, exc, 0))
    /\ IF RequestRetried(exc) /\ ~RetryExhausted(reqRetry)
       THEN /\ reqMethod' = RetryMethod(reqMethod)
            /\ reqRetry' = reqRetry - 1
            /\ UNCHANGED <<reqPc, reqResult>>
       ELSE /\ reqPc' = "done"
            /\ reqResult' = None
            /\ UNCHANGED <<reqMethod, reqRetry>>
    /\ UNCHANGED <<reqCommand, loginVars, heaters, cmdVars, fetch, raVars, other,
                   hostVars, wsVars>>

\* The attempt in flight is answered: the body alone decides the result.
RequestAnswered(status, body) ==
    /\ reqPc = "wait"
    /\ reqLog' = Append(reqLog, Attempt(reqMethod, reqCommand, body, status))
    /\ reqPc' = "done"
    /\ reqResult' = DecodeBody(body)
    /\ UNCHANGED <<reqMethod, reqRetry, reqCommand, loginVars, heaters, cmdVars,
                   fetch, raVars, other, hostVars, wsVars>>

\* Bodies of an answer: none, not JSON, the JSON literal null, JSON values
\* that are falsy but not null, and a JSON object.
RequestBodies ==
    {EmptyBody, TextBody, JsonBody(JNone), JsonBody(JBool(FALSE)),
     JsonBody(JNum(0)), JsonBody(Ack({"status"}, JBool(TRUE)))}

RequestInit ==
    /\ LoggedIn
    /\ heaters = EmptyRegistry
    /\ CmdIdle
    /\ RefreshAllIdle
    /\ fetch = NoTasks
    /\ HostNone
    /\ RequestIdle
    /\ ChannelNew

RequestNext ==
    \/ \E m \in RequestMethods, c \in RequestCommands : RequestCall(m, c)
    \/ \E exc \in {Timeout, ClientError} : RequestRaised(exc)
    \/ \E st \in RequestStatuses, body \in RequestBodies : RequestAnswered(st, body)

SpecRequest == RequestInit /\ [][RequestNext]_vars

\* The call that is followed started with method m and has ended.
RequestEnded(m) ==
    reqPc = "done" /\ reqLog # <<>> /\ reqLog[1].method = m
TimedOut(i) == reqLog[i].outcome = Timeout
WasAnswered(i) == reqLog[i].outcome.kind \in {"empty", "text", "json"}
FirstAnswered(j) ==
    /\ j \in 1..Len(reqLog)
    /\ WasAnswered(j)
    /\ \A i \in 1..(j - 1) : TimedOut(i)

\* C21: a GET request whose attempts all time out makes exactly 4 attempts
\* (the first and GET_RETRY = 3 retries) and returns null; if attempt j <= 4
\* is the first one answered, exactly j attempts are made and the result is
\* what the body of that answer alone decodes to.
C21_GetRetryBudget ==
    RequestEnded("GET") =>
        /\ Len(reqLog) <= GET_RETRY + 1
        /\ \A i \in 1..Len(reqLog) : reqLog[i].method = "GET"
        /\ (\A i \in 1..Len(reqLog) : TimedOut(i)) =>
               Len(reqLog) = GET_RETRY + 1 /\ reqResult = None
        /\ \A j \in 1..(GET_RETRY + 1) :
               FirstAnswered(j) =>
                   /\ Len(reqLog) = j
                   /\ reqResult = DecodeBody(reqLog[j].outcome)

\* A GET call that timed out three times and was answered with a JSON
\* object at its fourth and last attempt.
C21_Witness ==
    /\ RequestEnded("GET")
    /\ Len(reqLog) = GET_RETRY + 1
    /\ FirstAnswered(GET_RETRY + 1)
    /\ reqResult # None

C23_PostRetriesThroughGet ==
    (reqLog # <<>> /\ reqLog[1].method = "POST") =>
        /\ Cardinality({i \in 1..Len(reqLog) : reqLog[i].method = "POST"}) = 1
        /\ Cardinality({i \in 1..Len(reqLog) : reqLog[i].method = "GET"})
               <= POST_RETRY
        /\ \A i \in 2..Len(reqLog) :
               reqLog[i].method = "GET" /\ TimedOut(i - 1)
        /\ \A i \in 1..Len(reqLog) : reqLog[i].command = reqCommand
        /\ reqPc = "wait" => (reqMethod = "GET" /\ reqRetry < POST_RETRY)
        /\ \A j \in 1..Len(reqLog) :
               FirstAnswered(j) =>
                   /\ reqPc = "done"
                   /\ Len(reqLog) = j
                   /\ reqResult = DecodeBody(reqLog[j].outcome)

\* A setTemperature call whose POST and first two GET retries timed out and
\* whose third GET retry was acknowledged.
C23_Witness ==
    /\ reqPc = "done"
    /\ reqCommand = "setTemperature"
    /\ Len(reqLog) = POST_RETRY + 1
    /\ reqLog[1].method = "POST"
    /\ reqLog[POST_RETRY + 1].method = "GET"
    /\ reqLog[POST_RETRY + 1].outcome = JsonBody(Ack({"status"}, JBool(TRUE)))
    /\ reqResult = Some(Ack({"status"}, JBool(TRUE)))

\* The attempt that ended the call was answered (it carried a body).
LastAnswered == reqPc = "done" /\ reqLog # <<>> /\ WasAnswered(Len(reqLog))
LastBody == reqLog[Len(reqLog)].outcome

MaxRounds == 2
MaxFrames == 2

\* A Python dict with string keys is a function; {} is the empty one.
EmptyDict == [k \in {} |-> 0]
\* dict.update(other)
DictUpdate(a, b) ==
    [k \in DOMAIN a \cup DOMAIN b |-> IF k \in DOMAIN b THEN b[k] ELSE a[k]]

\* self.devices[dev_id]: a record holding the "Status" dict of the device.
DeviceRecord(status) == [Status |-> status]
DevicesOver(ids) == Some([d \in ids |-> DeviceRecord(EmptyDict)])
\* `for dev_id in self.devices`: the keys, in the order of the dict.
RECURSIVE KeysInOrder(_)
KeysInOrder(ids) ==
    IF ids = {} THEN <<>>
    ELSE LET m == CHOOSE x \in ids : \A y \in ids : x <= y
         IN <<m>> \o KeysInOrder(ids \ {m})
DeviceIds == IF devices = None THEN <<>> ELSE KeysInOrder(DOMAIN devices[1])

\* The frames the client sends (send_json), by MessageType.
ActiveUserPing == [MessageType |-> "ActiveUserPing", Data |-> "id",
                   ProviderID |-> 0, Command |-> 0]
\* {"MessageType": "MessageDistributor",
\*  "Data": '{"Data": dev_id, "ProviderID": 6, "Date": ..., "Command": 2}'}
Subscription(dev_id) == [MessageType |-> "MessageDistributor", Data |-> dev_id,
                         ProviderID |-> 6, Command |-> 2]
Ping(dev_id) == [MessageType |-> "Ping", Data |-> dev_id,
                 ProviderID |-> 0, Command |-> 0]
\* One send_json call and whether it returned (ok) or raised.
Send(frame, ok) == [frame |-> frame, ok |-> ok]

\* run_websocket, lines 523-528: after ws_connect returned, the handle is
\* not None and both tasks are created, the heartbeat first.
TasksStarted ==
    /\ wsPc' = "returned"
    /\ hbPc' = "loop"
    /\ lsPc' = "recv"

\* `for dev_id in self.devices:` of ws_connect, entered with idx devices
\* done: iterating None raises TypeError; after the last device ws_connect
\* returns to run_websocket; otherwise the next subscription is sent.
SubscribeLoop(idx) ==
    /\ wsIdx' = idx
    /\ IF devices = None
       THEN wsPc' = "raised" /\ UNCHANGED <<hbPc, lsPc>>
       ELSE IF idx >= Len(DeviceIds)
            THEN TasksStarted
            ELSE wsPc' = "subscribe" /\ UNCHANGED <<hbPc, lsPc>>

\* run_websocket() -> ws_connect(), up to the first await.  Reading
\* self.websession before connect() raises AttributeError; with a cleared
\* handle ws_connect does nothing and run_websocket then reads
\* self.websocket: AttributeError if it was never assigned, else no task is
\* started; a closed session refuses to open a socket (RuntimeError).
RunWebsocket ==
    /\ wsPc = "idle"
    /\ wsPc' = IF websession = "unset" THEN "raised"
               ELSE IF websession = "none"
                    THEN (IF websocket = "unset" THEN "raised" ELSE "returned")
                    ELSE IF SessionUsable THEN "connecting" ELSE "raised"
    /\ UNCHANGED <<websocket, user_info, devices, wsIdx, wsSent, hbPc, hbIdx,
                   hbRounds, lsPc, lsMsg, lsCount>>
    /\ UNCHANGED <<loginVars, heaters, cmdVars, fetch, raVars, other, hostVars,
                   reqVars>>

\* websession.ws_connect(...) raises (handshake or connection error): the
\* exception leaves ws_connect and run_websocket.
SocketFailed ==
    /\ wsPc = "connecting"
    /\ wsPc' = "raised"
    /\ UNCHANGED <<websocket, user_info, devices, wsIdx, wsSent, hbPc, hbIdx,
                   hbRounds, lsPc, lsMsg, lsCount>>
    /\ UNCHANGED <<loginVars, heaters, cmdVars, fetch, raVars, other, hostVars,
                   reqVars>>

\* The socket is open (a response object, which is truthy) and is stored.
\* `if "id" in self.user_info` raises TypeError when user_info is None;
\* without the key no announcement is sent and the loop is entered.
SocketOpened ==
    /\ wsPc = "connecting"
    /\ websocket' = "open"
    /\ IF user_info = None
       THEN wsPc' = "raised" /\ UNCHANGED <<wsIdx, hbPc, lsPc>>
       ELSE IF "id" \in user_info[1]
            THEN wsPc' = "announce" /\ UNCHANGED <<wsIdx, hbPc, lsPc>>
            ELSE SubscribeLoop(0)
    /\ UNCHANGED <<user_info, devices, wsSent, hbIdx, hbRounds, lsMsg, lsCount>>
    /\ UNCHANGED <<loginVars, heaters, cmdVars, fetch, raVars, other, hostVars,
                   reqVars>>

\* The announcement was sent (and the 0.1 s sleep is over).
AnnounceSent ==
    /\ wsPc = "announce"
    /\ wsSent' = Append(wsSent, Send(ActiveUserPing, TRUE))
    /\ SubscribeLoop(0)
    /\ UNCHANGED <<websocket, user_info, devices, hbIdx, hbRounds, lsMsg, lsCount>>
    /\ UNCHANGED <<loginVars, heaters, cmdVars, fetch, raVars, other, hostVars,
                   reqVars>>

\* The subscription request of the next device was sent.
SubscribeSent ==
    /\ wsPc = "subscribe"
    /\ wsSent' = Append(wsSent, Send(Subscription(DeviceIds[wsIdx + 1]), TRUE))
    /\ SubscribeLoop(wsIdx + 1)
    /\ UNCHANGED <<websocket, user_info, devices, hbIdx, hbRounds, lsMsg, lsCount>>
    /\ UNCHANGED <<loginVars, heaters, cmdVars, fetch, raVars, other, hostVars,
                   reqVars>>

\* send_json raises inside ws_connect: nothing catches it there.
ConnectSendFailed ==
    /\ wsPc \in {"announce", "subscribe"}
    /\ wsSent' = Append(wsSent,
           Send(IF wsPc = "announce" THEN ActiveUserPing
                ELSE Subscription(DeviceIds[wsIdx + 1]), FALSE))
    /\ wsPc' = "raised"
    /\ UNCHANGED <<websocket, user_info, devices, wsIdx, hbPc, hbIdx, hbRounds,
                   lsPc, lsMsg, lsCount>>
    /\ UNCHANGED <<loginVars, heaters, cmdVars, fetch, raVars, other, hostVars,
                   reqVars>>

\* ---- ws_heartbeat ---------------------------------------------------------
\* Where the task goes when send_json raised: `except Exception: ... return`.
AfterPingFailure_NextDevice(idx, n) == IF idx + 1 < n THEN "send" ELSE "sleep"
AfterPingFailure(idx, n) == "failed"

\* `while self.websocket is not None:` at task start and after each sleep,
\* then the first step of the round: `for dev_id in self.devices`.
HeartbeatRound ==
    /\ hbPc \in {"loop", "sleep"}
    /\ IF websocket = "none"
       THEN hbPc' = "ended" /\ UNCHANGED <<hbIdx, hbRounds>>
       ELSE /\ hbRounds < MaxRounds
            /\ hbRounds' = hbRounds + 1
            /\ hbIdx' = 0
            /\ hbPc' = IF devices = None THEN "raised"
                       ELSE IF DeviceIds = <<>> THEN "sleep" ELSE "send"
    /\ UNCHANGED <<websocket, user_info, devices, wsPc, wsIdx, wsSent, lsPc,
                   lsMsg, lsCount>>
    /\ UNCHANGED <<loginVars, heaters, cmdVars, fetch, raVars, other, hostVars,
                   reqVars>>

\* The ping of the next device was sent.
PingSent ==
    /\ hbPc = "send"
    /\ websocket # "none"
    /\ wsSent' = Append(wsSent, Send(Ping(DeviceIds[hbIdx + 1]), TRUE))
    /\ hbIdx' = hbIdx + 1
    /\ hbPc' = IF hbIdx + 1 < Len(DeviceIds) THEN "send" ELSE "sleep"
    /\ UNCHANGED <<websocket, user_info, devices, wsPc, wsIdx, hbRounds, lsPc,
                   lsMsg, lsCount>>
    /\ UNCHANGED <<loginVars, heaters, cmdVars, fetch, raVars, other, hostVars,
                   reqVars>>

\* Sending the ping of the next device raised.
PingFailed ==
    /\ hbPc = "send"
    /\ websocket # "none"
    /\ wsSent' = Append(wsSent, Send(Ping(DeviceIds[hbIdx + 1]), FALSE))
    /\ hbPc' = AfterPingFailure(hbIdx, Len(DeviceIds))
    /\ hbIdx' = IF hbPc' = "failed" THEN hbIdx ELSE hbIdx + 1
    /\ UNCHANGED <<websocket, user_info, devices, wsPc, wsIdx, hbRounds, lsPc,
                   lsMsg, lsCount>>
    /\ UNCHANGED <<loginVars, heaters, cmdVars, fetch, raVars, other, hostVars,
                   reqVars>>

\* `self.websocket.send_json` with the handle cleared: AttributeError on
\* None, raised inside the try, so `except Exception` takes it and the task
\* returns.  No frame is sent.
SendOnCleared_Uncaught(idx, n) == "raised"
SendOnCleared(idx, n) == AfterPingFailure(idx, n)

PingOnCleared ==
    /\ hbPc = "send"
    /\ websocket = "none"
    /\ hbPc' = SendOnCleared(hbIdx, Len(DeviceIds))
    /\ UNCHANGED <<websocket, user_info, devices, wsPc, wsIdx, wsSent, hbIdx,
                   hbRounds, lsPc, lsMsg, lsCount>>
    /\ UNCHANGED <<loginVars, heaters, cmdVars, fetch, raVars, other, hostVars,
                   reqVars>>

\* ---- ws_disconnect --------------------------------------------------------
\* ws_disconnect() up to `await asyncio.wait_for(self.websocket.close(), 5)`,
\* called after run_websocket() returned.  The handle stays set while the
\* close is awaited ("closing"); with a cleared handle nothing is done.
WsDisconnect ==
    /\ wsPc = "returned"
    /\ websocket = "open"
    /\ websocket' = "closing"
    /\ UNCHANGED <<user_info, devices, wsPc, wsIdx, wsSent, hbPc, hbIdx,
                   hbRounds, lsPc, lsMsg, lsCount>>
    /\ UNCHANGED <<loginVars, heaters, cmdVars, fetch, raVars, other, hostVars,
                   reqVars>>

\* close() returned within the timeout: `self.websocket = None`.
WsClosed ==
    /\ websocket = "closing"
    /\ websocket' = "none"
    /\ UNCHANGED <<user_info, devices, wsPc, wsIdx, wsSent, hbPc, hbIdx,
                   hbRounds, lsPc, lsMsg, lsCount>>
    /\ UNCHANGED <<loginVars, heaters, cmdVars, fetch, raVars, other, hostVars,
                   reqVars>>

\* close() raised or wait_for timed out: the exception leaves
\* ws_disconnect and the handle is not cleared.
WsCloseFailed ==
    /\ websocket = "closing"
    /\ websocket' = "open"
    /\ UNCHANGED <<user_info, devices, wsPc, wsIdx, wsSent, hbPc, hbIdx,
                   hbRounds, lsPc, lsMsg, lsCount>>
    /\ UNCHANGED <<loginVars, heaters, cmdVars, fetch, raVars, other, hostVars,
                   reqVars>>

\* ---- ws_listener ----------------------------------------------------------
\* An inbound frame: {"ProviderID": p, "Data": [status objects]}.
StatusObject(dev_id, date) ==
    [k \in {"DeviceID", "LastRefreshDate"} |->
        IF k = "DeviceID" THEN dev_id ELSE date]
InboundFrame(p, data) ==
    [k \in {"ProviderID", "Data"} |-> IF k = "ProviderID" THEN p ELSE data]

\* Line 606: `msg_data = {}`, and nothing assigns msg_data from msg (the
\* receive_json call is commented out): the dict the body of the loop
\* inspects is empty for every frame.
MsgData(msg) == EmptyDict

\* Lines 617-625: the loop over msg_data["Data"].
RECURSIVE MergeStatuses(_, _)
MergeStatuses(devs, data) ==
    IF data = <<>> THEN devs
    ELSE LET dev_status == Head(data)
             merged ==
                 IF "DeviceID" \in DOMAIN dev_status
                    /\ dev_status["DeviceID"] \in DOMAIN devs
                 THEN [devs EXCEPT ![dev_status["DeviceID"]] =
                          DeviceRecord(DictUpdate(@.Status, dev_status))]
                 ELSE devs
         IN MergeStatuses(merged, Tail(data))

\* Lines 609-615: does the body of the loop reach the merge?
CarriesStatuses(msg_data) ==
    /\ "ProviderID" \in DOMAIN msg_data
    /\ msg_data["ProviderID"] \in {3, 6}
    /\ "Data" \in DOMAIN msg_data

\* `dev_id in self.devices` on None raises TypeError.
MergeRaises(msg_data) ==
    /\ CarriesStatuses(msg_data)
    /\ devices = None
    /\ \E i \in 1..Len(msg_data["Data"]) :
           "DeviceID" \in DOMAIN msg_data["Data"][i]

\* `async for msg in self.websocket` yields a frame and the body runs.
FrameReceived(msg) ==
    /\ lsPc = "recv"
    /\ websocket # "none"
    /\ lsCount < MaxFrames
    /\ lsCount' = lsCount + 1
    /\ lsMsg' = Some(msg)
    /\ LET msg_data == MsgData(msg)
       IN IF MergeRaises(msg_data)
          THEN lsPc' = "failed" /\ UNCHANGED devices
          ELSE /\ UNCHANGED lsPc
               /\ devices' = IF CarriesStatuses(msg_data)
                             THEN Some(MergeStatuses(devices[1], msg_data["Data"]))
                             ELSE devices
    /\ UNCHANGED <<websocket, user_info, wsPc, wsIdx, wsSent, hbPc, hbIdx,
                   hbRounds>>
    /\ UNCHANGED <<loginVars, heaters, cmdVars, fetch, raVars, other, hostVars,
                   reqVars>>

\* The iteration ends: the peer closed the socket (the loop is left and the
\* function returns) or the transport raised (`except Exception`: a warning
\* is logged).  Neither path assigns self.websocket.
ListenerEnded(raised) ==
    /\ lsPc = "recv"
    /\ lsPc' = IF raised THEN "failed" ELSE "closed"
    /\ UNCHANGED <<websocket, user_info, devices, wsPc, wsIdx, wsSent, hbPc,
                   hbIdx, hbRounds, lsMsg, lsCount>>
    /\ UNCHANGED <<loginVars, heaters, cmdVars, fetch, raVars, other, hostVars,
                   reqVars>>

\* Inbound frames: provider ids 3 and 6 and another one, each with one
\* status object of device 1 or of device 3 (never in self.devices).
ChannelFrames ==
    {InboundFrame(p, <<StatusObject(dv, 7)>>) : p \in {1, 3, 6}, dv \in {1, 3}}

\* The client before or after a successful connect(), with user_info and
\* devices as __init__ left them or as a caller filled them.
ChannelInit ==
    /\ (LoggedIn \/ LoginInit)
    /\ heaters = EmptyRegistry
    /\ CmdIdle
    /\ RefreshAllIdle
    /\ fetch = NoTasks
    /\ HostNone
    /\ RequestIdle
    /\ ChannelIdle
    /\ user_info \in {None, Some({}), Some({"id"})}
    /\ devices \in {None, DevicesOver({}), DevicesOver({1}), DevicesOver({1, 2})}

ChannelNext ==
    \/ RunWebsocket
    \/ SocketFailed
    \/ SocketOpened
    \/ AnnounceSent
    \/ SubscribeSent
    \/ ConnectSendFailed
    \/ HeartbeatRound
    \/ PingSent
    \/ PingFailed
    \/ PingOnCleared
    \/ WsDisconnect
    \/ WsClosed
    \/ WsCloseFailed
    \/ \E msg \in ChannelFrames : FrameReceived(msg)
    \/ \E raised \in BOOLEAN : ListenerEnded(raised)

SpecChannel == ChannelInit /\ [][ChannelNext]_vars

IsPing(i) == wsSent[i].frame.MessageType = "Ping"

\* C25: once sending a keep-alive ping has failed for one device, the
\* heartbeat task has terminated: no ping is sent (or attempted) after it,
\* neither for the remaining devices of that round nor in a later round.
C25_HeartbeatStopsOnFailure ==
    \A i \in 1..Len(wsSent) :
        (IsPing(i) /\ ~wsSent[i].ok) =>
            /\ hbPc = "failed"
            /\ \A j \in (i + 1)..Len(wsSent) : ~IsPing(j)

\* The ping of the first of two devices failed in the first round: a device
\* and a round were left.
C25_Witness ==
    /\ hbPc = "failed"
    /\ Len(DeviceIds) = 2
    /\ hbIdx = 0
    /\ hbRounds < MaxRounds
    /\ wsSent[Len(wsSent)] = Send(Ping(DeviceIds[1]), FALSE)

\* C26: a transport exception raised in the listener moves the channel back
\* to Disconnected: once the listener has ended that way the socket handle
\* is no longer held (self.websocket is None), so the heartbeat loop stops.
C26_ListenerFailureDisconnects ==
    lsPc = "failed" => websocket = "none"

\* C27: a received frame with ProviderID 3 or 6 whose Data holds a status
\* object of a known device has that object's fields merged into the record
\* of the device.
C27_FramesMerged ==
    (lsMsg # None /\ devices # None) =>
        LET msg == lsMsg[1]
        IN msg["ProviderID"] \in {3, 6} =>
               \A i \in 1..Len(msg["Data"]) :
                   LET dev_status == msg["Data"][i]
                   IN dev_status["DeviceID"] \in DOMAIN devices[1] =>
                          \A k \in DOMAIN dev_status :
                              /\ k \in DOMAIN devices[1][dev_status["DeviceID"]].Status
                              /\ devices[1][dev_status["DeviceID"]].Status[k]
                                     = dev_status[k]

Announcements == {i \in 1..Len(wsSent) : wsSent[i].frame = ActiveUserPing}
Subscriptions(dev_id) ==
    {i \in 1..Len(wsSent) : wsSent[i].frame = Subscription(dev_id)}
AllSendsOk == \A i \in 1..Len(wsSent) : wsSent[i].ok

\* C28: when the push channel has connected (the socket is open and
\* run_websocket is over, no send having failed), exactly one active-user
\* announcement was sent, before every subscription request; exactly one
\* subscription request (ProviderID 6, Command 2) was sent for each known
\* device; and the heartbeat and listener tasks exist only if all of these
\* were sent.
C28_ConnectSequence ==
    (websocket = "open" /\ wsPc \in {"returned", "raised"} /\ AllSendsOk) =>
        /\ Cardinality(Announcements) = 1
        /\ wsSent[1].frame = ActiveUserPing
        /\ devices # None
        /\ \A d \in DOMAIN devices[1] : Cardinality(Subscriptions(d)) = 1
        /\ hbPc # "none"
        /\ lsPc # "none"

(***************************************************************************)
(* set_temperature while a refresh of the same heater is in flight         *)
(* (EldomHeater.async_set_temperature and async_update are separate host   *)
(* calls on one event loop).  In this specification every status request   *)
(* is sent before the first command is called, and status requests are     *)
(* answered at any time: a refresh that completes after a command was in   *)
(* flight when that command was sent.                                      *)
(***************************************************************************)
InFlightNext ==
    \/ \E k \in DOMAIN heaters : cmdPc = "idle" /\ RefreshOneCall(k)
    \/ \E k \in DOMAIN heaters : cmdPc = "idle" /\ FetchTimedOut(k)
    \/ \E k \in DOMAIN heaters : FetchClientError(k)
    \/ \E k \in DOMAIN heaters, body \in RefreshBodies : FetchAnswered(k, body)
    \/ \E k \in DOMAIN heaters, v \in 1..MaxVal :
           CommandCall("set_temperature", k, JNum(v))
    \/ CommandTimedOut
    \/ CommandClientError
    \/ \E body \in CmdOutcomes \ {Timeout, ClientError} : CommandAnswered(body)

SpecInFlight == SetStateInit /\ [][InFlightNext]_vars

\* C29: after set_temperature(h, v) has returned success, h.set_temp equals
\* v until a refresh whose status request was sent after the command was
\* acknowledged completes.  Where no status request is sent after the first
\* command (SpecInFlight) this says: whenever the last command has returned
\* success, h.set_temp is the v of that command.
C29_TargetKeptAfterAck ==
    (cmdPc = "done" /\ cmdOp = "set_temperature" /\ cmdResult) =>
        heaters[cmdKey].set_temp = cmdArg

\* C30: discovery is all-or-nothing: when a fetch_all_heaters call that ran
\* discovery has ended, by returning or by raising, the registry holds no
\* device or a record for every heater entry of the device list it received.
C30_DiscoveryAllOrNothing ==
    (raStartEmpty /\ raPc \in {"returned", "raised"}
        /\ raList # None /\ raList[1].isList) =>
        \/ DOMAIN heaters = {}
        \/ HeaterKeys(raList[1].items) \subseteq DOMAIN heaters

(***************************************************************************)
(* Further claims about fetch_heater_data (SpecOne, SpecRefresh)           *)
(***************************************************************************)
\* All payload fields of record h come from the one status st.
FieldsFrom(h, st) ==
    /\ FloatOk(SelectTarget(st))
    /\ FloatOk(st.PCBTemp)
    /\ FloatOk(st.EnergyD)
    /\ FloatOk(st.EnergyN)
    /\ h = FetchStage5(h, st)

\* C31: a refresh applies a status payload to a record atomically: in every
\* state another task can observe, the payload fields of a record all come
\* from the payload it was refreshed from last (raw_data), none from an
\* earlier one.
C31_RefreshAtomic ==
    \A k \in DOMAIN heaters :
        heaters[k].raw_data # None =>
            FieldsFrom(heaters[k], heaters[k].raw_data[1])

\* C32: in every reachable state a record with available = true has
\* last_updated set; and no step resets the last_updated of a record to
\* null (so an unavailable record may carry the timestamp of an earlier
\* refresh).
C32_AvailableHasTimestamp ==
    /\ [](\A k \in DOMAIN heaters :
              heaters[k].available = JBool(TRUE) =>
                  heaters[k].last_updated # JNone)
    /\ [][\A k \in DOMAIN heaters \cap DOMAIN heaters' :
              heaters[k].last_updated # JNone =>
                  heaters'[k].last_updated # JNone]_vars

\* A refresh of a record that carried a timestamp failed: the record is
\* unavailable and still carries it.
C32_Witness ==
    \E k \in DOMAIN heaters :
        /\ fetch[k].pc = "done"
        /\ ~fetch[k].result
        /\ heaters[k].available = JBool(FALSE)
        /\ heaters[k].last_updated # JNone

(***************************************************************************)
(* SpecTerm: termination of the calls.  One connect() with any budget;     *)
(* from the client that connect() left logged in at its first attempt,     *)
(* one fetch_all_heaters, then any number of fetch_heater_data and last    *)
(* one set_temperature or set_state, one call at a time.  Every attempt    *)
(* ends:                                                                   *)
(* the outcome steps of a waiting call are weakly fair (the per-attempt    *)
(* timeout of async_timeout guarantees an outcome); calls are not.         *)
(***************************************************************************)
TermKeys == {JText(1), JText(2)}
TermList == <<HeaterEntry(1, JTs(1, 9)), HeaterEntry(2, JNone)>>
TermStatus == JsonBody(Envelope(StatusBase(1, 2)))
TermAck == JsonBody(Ack({"status"}, JBool(TRUE)))

LoginOutcome ==
    \/ \E exc \in LoginFailures : LoginRaised(exc)
    \/ \E st \in {200, HTTP_FOUND} : LoginAnswered(st)
DiscoveryOutcome ==
    \/ DiscoveryTimedOut
    \/ DiscoveryClientError
    \/ DiscoveryAnswered(JsonBody(DeviceList(TermList)))
FetchOutcome(k) ==
    \/ FetchTimedOut(k)
    \/ FetchClientError(k)
    \/ FetchAnswered(k, TermStatus)
CommandOutcome ==
    \/ CommandTimedOut
    \/ CommandClientError
    \/ CommandAnswered(TermAck)

\* No call is waiting for a request.
Quiet ==
    /\ cmdPc \notin {"post", "get"}
    /\ raPc \notin {"discover", "gather"}
    /\ \A k \in DOMAIN fetch : fetch[k].pc # "get"

TermNext ==
    \/ \E r \in (-1)..MaxRetry : nConnects = 0 /\ Connect(TRUE, r)
    \/ LoginOutcome
    \/ LoggedIn /\ Quiet /\ raPc = "idle" /\ RefreshAllCall
    \/ DiscoveryOutcome
    \/ \E k \in TermKeys :
           LoggedIn /\ Quiet /\ cmdPc = "idle" /\ RefreshOneCall(k)
    \/ \E k \in TermKeys : FetchOutcome(k)
    \/ \E k \in TermKeys :
           /\ LoggedIn /\ Quiet /\ cmdPc = "idle"
           /\ CommandCall("set_temperature", k, JNum(1))
    \/ \E k \in TermKeys :
           /\ LoggedIn /\ Quiet /\ cmdPc = "idle"
           /\ CommandCall("set_state", k, JNum(1))
    \/ CommandOutcome

TermFairness ==
    /\ WF_vars(LoginOutcome)
    /\ WF_vars(DiscoveryOutcome)
    /\ WF_vars(CommandOutcome)
    /\ \A k \in TermKeys : WF_vars(FetchOutcome(k))

SpecTerm == NewClient /\ [][TermNext]_vars /\ TermFairness

PyMax(a, b) == IF a >= b THEN a ELSE b

\* The attempt bounds of the calls.
AttemptBounds ==
    /\ loginAttempts <= PyMax(loginBudget, 0) + 1
    /\ raDiscGets <= GET_RETRY + 1
    /\ cmdPosts + cmdGets <= POST_RETRY + 1
    /\ \A k \in DOMAIN fetch :
           fetch[k].pc = "get" => GET_RETRY - fetch[k].retry + 1 <= GET_RETRY + 1

\* C33: provided every request attempt ends, every call of connect,
\* fetch_all_heaters, fetch_heater_data, set_temperature and set_state ends
\* (by returning or raising): connect(retry=r) after at most max(r,0)+1
\* login attempts, a GET-based request and a command after at most 4
\* attempts, fetch_all_heaters after at most 4 device-list attempts and 4
\* attempts for each device.
C33_CallsTerminate ==
    /\ []AttemptBounds
    /\ (loginPc = "posting") ~> (loginPc # "posting")
    /\ (cmdPc \in {"post", "get"}) ~> (cmdPc \in {"done", "raised"})
    /\ (raPc \in {"discover", "gather"}) ~> (raPc \in {"returned", "raised"})
    /\ \A k \in TermKeys :
           (k \in DOMAIN fetch /\ fetch[k].pc = "get")
               ~> (k \in DOMAIN fetch /\ fetch[k].pc # "get")

\* A fetch_all_heaters call that used all 4 device-list attempts, got the
\* list at the last one and returned after its tasks ended, while a command
\* had used its 4 attempts.
C33_Witness ==
    /\ raPc = "returned"
    /\ raStartEmpty
    /\ raDiscGets = GET_RETRY + 1
    /\ DOMAIN raReturn = TermKeys
    /\ cmdPc = "done"
    /\ cmdPosts + cmdGets = POST_RETRY + 1

(***************************************************************************)
(* SpecFrame: who sends login requests.  From the logged-in client with    *)
(* an empty registry or one refreshed heater: disconnect(), one more       *)
(* connect(), refreshes and commands in any order and overlapping.  A      *)
(* request on a session the service no longer accepts is refused with a    *)
(* connection error or answered with a page that is not JSON.              *)
(***************************************************************************)
FrameStatus == JsonBody(Envelope(StatusBase(2, 1)))
FrameAck == JsonBody(Ack({"status"}, JBool(TRUE)))

FrameNext ==
    \/ \E r \in 0..1 : Connect(TRUE, r)
    \/ LoginRaised("timeout")
    \/ \E st \in {200, HTTP_FOUND} : LoginAnswered(st)
    \/ Disconnect
    \/ LogoutAnswered(HTTP_FOUND)
    \/ RefreshAllCall
    \/ DiscoveryClientError
    \/ DiscoveryAnswered(TextBody)
    \/ \E k \in DOMAIN heaters : RefreshOneCall(k)
    \/ \E k \in DOMAIN heaters : FetchClientError(k)
    \/ \E k \in DOMAIN heaters, body \in {TextBody, FrameStatus} :
           FetchAnswered(k, body)
    \/ \E k \in DOMAIN heaters : CommandCall("set_temperature", k, JNum(MaxVal))
    \/ \E k \in DOMAIN heaters : CommandCall("set_state", k, JNum(0))
    \/ CommandClientError
    \/ \E body \in {TextBody, FrameAck} : CommandAnswered(body)

SpecFrame == TeardownInit /\ [][FrameNext]_vars

\* The login bookkeeping: attempts sent, their outcomes, time of the last one.
LoginFields == <<loginAttempts, loginLog, last_login_attempt>>

\* A step of refresh_all, refresh_one, set_temperature, set_state or
\* disconnect: their call, or the outcome of one of their requests.
OperationStep == <<cmdVars, fetch, raVars, heaters, dcVars>>' #
                     <<cmdVars, fetch, raVars, heaters, dcVars>>

\* C34: login requests are issued only by connect(): no step of refresh_all,
\* refresh_one, set_temperature, set_state or disconnect sends a login
\* request or changes last_login_attempt, also when its own request fails
\* on a session that is no longer authenticated.
C34_LoginOnlyByConnect ==
    [][OperationStep => UNCHANGED LoginFields]_vars

\* After disconnect() logged the session out, a command and a refresh have
\* failed, and the login bookkeeping is that of the first connect().
C34_Witness ==
    /\ dcPc = "done"
    /\ cmdPc = "done" /\ ~cmdResult /\ cmdResp = None
    /\ \E k \in DOMAIN fetch : fetch[k].pc = "done" /\ ~fetch[k].result
    /\ loginAttempts = 1
    /\ last_login_attempt = 1

(***************************************************************************)
(* SpecFlow: the client of a caller that supplies no session, as the       *)
(* config flow does (config_flow.py lines 36-44): MyEldom(), connect()      *)
(* without a session, and disconnect() only after connect() returned       *)
(* success.  async_step_user calls connect() with the default budget.      *)
(***************************************************************************)
\* `if not await eldom_data_connection.connect(): ... return form`, else
\* `await eldom_data_connection.disconnect()`.
FlowDisconnect ==
    /\ loginPc = "done"
    /\ connectResult
    /\ dcPc = "idle"
    /\ Disconnect

FlowNext ==
    \/ \E r \in 0..MaxRetry : nConnects = 0 /\ Connect(FALSE, r)
    \/ \E exc \in LoginFailures : LoginRaised(exc)
    \/ \E st \in LoginStatuses : LoginAnswered(st)
    \/ FlowDisconnect
    \/ \E st \in LogoutStatuses : LogoutAnswered(st)
    \/ \E exc \in LogoutFailures : LogoutRaised(exc)

SpecFlow == NewClient /\ [][FlowNext]_vars

\* C35: no session that connect() created itself is left open: when
\* connect() without a supplied session has returned failure, the session
\* it created is closed; the flow, which calls disconnect() on the success
\* path only, leaves no open session behind on the failure path.
C35_OwnSessionReleased ==
    (loginPc = "done" /\ ~connectResult /\ nConnects > 0) =>
        (websession = "own" => "own" \in closed)

(***************************************************************************)
(* SpecHeartbeat: the push channel with its tasks scheduled.  The event    *)
(* loop resumes a heartbeat task whose sleep or send is over, so the steps *)
(* of ws_heartbeat are weakly fair; calls of the caller and inbound frames *)
(* are not.                                                                *)
(***************************************************************************)
HeartbeatStep == HeartbeatRound \/ PingSent \/ PingFailed \/ PingOnCleared

SpecHeartbeat == ChannelInit /\ [][ChannelNext]_vars /\ WF_vars(HeartbeatStep)

\* The heartbeat task was started and has not finished.
HeartbeatRunning == hbPc \in {"loop", "sleep", "send"}

\* C36: after ws_disconnect() has closed the socket and cleared the handle,
\* a running heartbeat task eventually terminates and sends no ping
\* afterwards: its next step is its last (the loop check, or the send in
\* the middle of a round), and it does not end by raising.
C36_HeartbeatEndsAfterDisconnect ==
    /\ [][websocket = "none" =>
            /\ wsSent' = wsSent
            /\ hbPc' # hbPc => hbPc' \in {"ended", "failed"}]_vars
    /\ (websocket = "none" /\ HeartbeatRunning) ~> (hbPc \in {"ended", "failed"})

\* The handle was cleared after the first ping of a round of two: the task
\* returned at its second send, and every frame sent had been sent well.
C36_Witness ==
    /\ websocket = "none"
    /\ hbPc = "failed"
    /\ hbIdx = 1
    /\ Len(DeviceIds) = 2
    /\ \A i \in 1..Len(wsSent) : wsSent[i].ok

=============================================================================
